---- MODULE Spec2Model ----
(***************************************************************************)
(* Causal chat system: the browser client (VectorClockManager,             *)
(* CausalOrderEngine, CausalChatApp) and the WebSocket hub (ChatServer),   *)
(* modelled from src/frontend/script.js.                                   *)
(*                                                                         *)
(* Conventions.  A JavaScript Map from user id to counter is a function    *)
(* whose DOMAIN is the key set; Array.from(map.entries()) followed by      *)
(* new Map(array) keeps keys and values, so a clock travels as that        *)
(* function.  A uuid is a fresh positive integer.  null / undefined ids    *)
(* and names are NoId / NoName.                                            *)
(***************************************************************************)
EXTENDS Integers, Sequences, FiniteSets, TLC

\* ------------------------------------------------------------------ bounds
MaxConn == 3      \* connections the hub accepts in one run
MaxEvents == 2    \* user events after connecting, in one run
MaxTick == 2      \* component run: largest counter of a clock
MaxOffers == 3    \* component run: processMessage calls between two resets
MaxAttempts == 2  \* component run: largest attempts counter

\* ------------------------------------------------------- program constants
HistoryWindow == 50

Apps == {"alice", "bob", "carol"}
Duo == {"alice", "bob"}
Rooms == {"main"}
NoId == 0
NoName == "none"
NoRoom == "none"
EmptyMap == <<>>

\* ------------------------------------------------------------ Map helpers
\* map.get(k) || 0
Get0(m, k) == IF k \in DOMAIN m THEN m[k] ELSE 0

\* map.set(k, v)
Put(m, k, v) == [x \in (DOMAIN m) \cup {k} |-> IF x = k THEN v ELSE m[x]]

\* array.slice(0, n), the first n in place of the last
SliceFirst(s, n) == IF Len(s) <= n THEN s ELSE SubSeq(s, 1, n)

\* array.slice(-n)
SliceLast(s, n) == IF Len(s) <= n THEN s ELSE SubSeq(s, Len(s) - n + 1, Len(s))

\* ascending enumeration of a finite set of integers (Map insertion order of
\* the hub's clients: ids are handed out in increasing order)
RECURSIVE SetToSeq(_)
SetToSeq(S) ==
    IF S = {} THEN <<>>
    ELSE LET m == CHOOSE x \in S : \A y \in S : x <= y
         IN <<m>> \o SetToSeq(S \ {m})

\* ======================================================= VectorClockManager
\* constructor(userId)
NewClock(userId) == Put(EmptyMap, userId, 0)

\* addUser(userId)
addUser(clock, userId) == IF userId \in DOMAIN clock THEN clock ELSE Put(clock, userId, 0)

\* increment()
increment(clock, userId) == Put(clock, userId, Get0(clock, userId) + 1)

\* syncWithUsers as it would be if it set every user's counter, not only the
\* absent ones
syncWithUsersReset(clock, ids) == [x \in (DOMAIN clock) \cup ids |-> 0]

\* syncWithUsers(users): users given by their ids
syncWithUsers(clock, ids) ==
    [x \in (DOMAIN clock) \cup ids |-> IF x \in DOMAIN clock THEN clock[x] ELSE 0]

\* isCausallyReady(messageClockArray, senderId)
isCausallyReady(clock, messageClock, senderId) ==
    IF Get0(messageClock, senderId) # Get0(clock, senderId) + 1
    THEN FALSE
    ELSE \A userId \in DOMAIN clock :
            userId = senderId \/ ~(Get0(messageClock, userId) > clock[userId])

\* canDeliverBufferedMessage(messageClockArray, senderId)
canDeliverBufferedMessage(clock, messageClock, senderId) ==
    isCausallyReady(clock, messageClock, senderId)

\* ========================================================= CausalOrderEngine
\* A hub-stamped chat message (ChatServer.handleChat builds it; text, timestamp
\* and roomId are carried by the frame but decide nothing here).
Message(id, userId, username, vectorClock, delayed) ==
    [id |-> id, userId |-> userId, username |-> username,
     vectorClock |-> vectorClock, delayed |-> delayed]

\* constructor(): messageBuffer is a Map in insertion order, kept as a sequence
\* of entries; deliveredMessages is the list of delivered ids.
NewEngine ==
    [messageBuffer |-> <<>>,
     deliveredMessages |-> <<>>,
     stats |-> [totalProcessed |-> 0, deliveredImmediately |-> 0,
                buffered |-> 0, maxBufferSize |-> 0]]

BufferIds(buffer) == {buffer[i].id : i \in 1..Len(buffer)}

BufferIndex(buffer, id) == CHOOSE i \in 1..Len(buffer) : buffer[i].id = id

\* messageBuffer.set(id, entry): an existing key keeps its place
BufferSet(buffer, id, entry) ==
    IF id \in BufferIds(buffer)
    THEN [buffer EXCEPT ![BufferIndex(buffer, id)] = entry]
    ELSE Append(buffer, entry)

\* messageBuffer.delete(id)
BufferDelete(buffer, id) ==
    SelectSeq(buffer, LAMBDA e : e.id # id)

Max(a, b) == IF a >= b THEN a ELSE b

\* processMessage(message, vectorClock, senderId).  hasClock = FALSE is a null
\* vectorClock: the call vectorClock.isCausallyReady then throws, after
\* totalProcessed was counted.
processMessage(engine, message, hasClock, clock, senderId) ==
    LET e1 == [engine EXCEPT !.stats.totalProcessed = @ + 1]
    IN IF ~hasClock
       THEN [engine |-> e1, action |-> "throw"]
       ELSE IF isCausallyReady(clock, message.vectorClock, senderId)
       THEN [engine |->
                [e1 EXCEPT !.stats.deliveredImmediately = @ + 1,
                           !.deliveredMessages = Append(@, message.id)],
             action |-> "deliver_immediately"]
       ELSE LET buf == BufferSet(e1.messageBuffer, message.id,
                                 [id |-> message.id, message |-> message, attempts |-> 0])
            IN [engine |->
                   [e1 EXCEPT !.stats.buffered = @ + 1,
                              !.messageBuffer = buf,
                              !.stats.maxBufferSize = Max(@, Len(buf))],
                action |-> "buffered"]

\* checkBufferedMessages as it would be if it counted an attempt on every entry
\* it looks at, ready or not
checkBufferedMessagesCountsAll(engine, clock) ==
    LET buf == engine.messageBuffer
        ready(i) == canDeliverBufferedMessage(clock, buf[i].message.vectorClock,
                                              buf[i].message.userId)
        readyIdx == SetToSeq({i \in 1..Len(buf) : ready(i)})
    IN [engine |->
           [engine EXCEPT !.messageBuffer =
               [i \in 1..Len(buf) |-> [buf[i] EXCEPT !.attempts = @ + 1]]],
        readyMessages |-> [k \in 1..Len(readyIdx) |-> buf[readyIdx[k]].id]]

\* checkBufferedMessages(vectorClock): one pass over the buffer against one
\* clock; the ready ids in buffer order, attempts counted on the others.
checkBufferedMessages(engine, clock) ==
    LET buf == engine.messageBuffer
        ready(i) == canDeliverBufferedMessage(clock, buf[i].message.vectorClock,
                                              buf[i].message.userId)
        readyIdx == SetToSeq({i \in 1..Len(buf) : ready(i)})
    IN [engine |->
           [engine EXCEPT !.messageBuffer =
               [i \in 1..Len(buf) |->
                   IF ready(i) THEN buf[i]
                   ELSE [buf[i] EXCEPT !.attempts = @ + 1]]],
        readyMessages |-> [k \in 1..Len(readyIdx) |-> buf[readyIdx[k]].id]]

\* deliverMessage as it would be if it took the entry out of the buffer and
\* did not push it to deliveredMessages
deliverMessageUnlisted(engine, messageId) ==
    IF messageId \notin BufferIds(engine.messageBuffer)
    THEN [engine |-> engine, delivered |-> FALSE]
    ELSE [engine |-> [engine EXCEPT !.messageBuffer = BufferDelete(@, messageId)],
          delivered |-> TRUE]

\* deliverMessage(messageId): null when the id is not buffered
deliverMessage(engine, messageId) ==
    IF messageId \notin BufferIds(engine.messageBuffer)
    THEN [engine |-> engine, delivered |-> FALSE]
    ELSE [engine |->
             [engine EXCEPT !.messageBuffer = BufferDelete(@, messageId),
                            !.deliveredMessages = Append(@, messageId)],
          delivered |-> TRUE]

\* reset()
reset(engine) == NewEngine

\* getStats(): the stats with the size of the buffer and the length of the
\* delivered list
getStats(engine) ==
    [totalProcessed |-> engine.stats.totalProcessed,
     deliveredImmediately |-> engine.stats.deliveredImmediately,
     buffered |-> engine.stats.buffered,
     maxBufferSize |-> engine.stats.maxBufferSize,
     currentBufferSize |-> Len(engine.messageBuffer),
     totalDelivered |-> Len(engine.deliveredMessages)]

\* ================================================================== state
VARIABLES
    clients,         \* ChatServer.clients: connection id -> clientInfo
    roomUsers,       \* rooms.get('main').users
    messageHistory,  \* messageHistory.get('main')
    timers,          \* the hub's pending setTimeout callbacks
    nextId,          \* the next uuid handed to a connection
    wsState,         \* readyState of each connection, as the hub sees it
    toHub,           \* frames in flight, client -> hub, per connection
    toClient,        \* frames in flight, hub -> client, per connection
    app,             \* one CausalChatApp per browser
    events,          \* user events so far
    hClock,          \* component run: a VectorClockManager's clock
    hEngine,         \* component run: a CausalOrderEngine
    hLast            \* component run: the last call and what it returned

hubVars == <<clients, roomUsers, messageHistory, timers, nextId>>
netVars == <<wsState, toHub, toClient>>
sysVars == <<clients, roomUsers, messageHistory, timers, nextId,
             wsState, toHub, toClient, app, events>>
harnessVars == <<hClock, hEngine, hLast>>
vars == <<clients, roomUsers, messageHistory, timers, nextId,
          wsState, toHub, toClient, app, events, hClock, hEngine, hLast>>

Ids == 1..MaxConn

NoMsg == Message(0, NoId, NoName, EmptyMap, FALSE)

\* ----------------------------------------------------------------- frames
\* hub -> client
Frame(type) ==
    [type |-> type, clientId |-> NoId, users |-> {}, msg |-> NoMsg,
     messages |-> <<>>, username |-> NoName, isTyping |-> FALSE]

InitFrame(id) == [Frame("init") EXCEPT !.clientId = id]
UserListFrame(users) == [Frame("user_list") EXCEPT !.users = users]
SystemFrame(userId) == [Frame("system") EXCEPT !.clientId = userId]
JoinSuccessFrame(users) == [Frame("join_success") EXCEPT !.users = users]
ChatFrame(m) == [Frame("chat") EXCEPT !.msg = m]
HistoryFrame(ms) == [Frame("history") EXCEPT !.messages = ms]
TypingFrame(id, name, t) ==
    [Frame("user_typing") EXCEPT !.clientId = id, !.username = name, !.isTyping = t]
DeliveredFrame(mid) == [Frame("message_delivered") EXCEPT !.msg = [NoMsg EXCEPT !.id = mid]]
PongFrame == Frame("pong")

\* client -> hub
Request(type) ==
    [type |-> type, username |-> NoName, roomId |-> NoRoom,
     simulateDelay |-> FALSE, isTyping |-> FALSE]

\* ============================================================== ChatServer
\* stamped counts, for the properties, the chat frames handleChat has stamped
\* for the connection, dropped the frames of it that handleMessage let fall.
NewClientInfo ==
    [username |-> NoName, roomId |-> "main", vectorClock |-> EmptyMap, stamped |-> 0,
     dropped |-> 0]

\* client.ws.send as it would be if the frame were left for a later callback
SendLater(chan, id, frame) == chan

\* ws.send(frame) on one connection: a frame to a socket that is not open is lost
Send(chan, id, frame) ==
    IF wsState[id] = "open" THEN [chan EXCEPT ![id] = Append(@, frame)] ELSE chan

\* broadcastToRoom as it would be without the client.ws !== excludeWs test
broadcastToRoomEcho(chan, cl, roomId, frame, excludeWs) ==
    IF roomId \notin Rooms THEN chan
    ELSE [i \in Ids |->
            IF /\ i \in DOMAIN cl
               /\ cl[i].roomId = roomId
               /\ wsState[i] = "open"
            THEN Append(chan[i], frame)
            ELSE chan[i]]

\* broadcastToRoom(roomId, message, excludeWs), over the client table cl
broadcastToRoom(chan, cl, roomId, frame, excludeWs) ==
    IF roomId \notin Rooms THEN chan
    ELSE [i \in Ids |->
            IF /\ i \in DOMAIN cl
               /\ cl[i].roomId = roomId
               /\ i # excludeWs
               /\ wsState[i] = "open"
            THEN Append(chan[i], frame)
            ELSE chan[i]]

\* getRoomUsers(roomId): the users of the reply, by id
getRoomUsers(cl, roomId) ==
    {i \in DOMAIN cl : cl[i].roomId = roomId /\ cl[i].username # NoName}

\* broadcastUserList(roomId)
broadcastUserList(chan, cl, roomId) ==
    broadcastToRoom(chan, cl, roomId, UserListFrame(getRoomUsers(cl, roomId)), NoId)

\* Scheduling.  Every handler is one step and the handlers of different
\* parties commute: a hub handler only appends to inboxes, a client handler
\* only takes the head of its own inbox and appends to its own socket.  So
\* every run has the same outcome as one in which the hub runs a handler only
\* once the clients have emptied their inboxes (ClientsIdle) and a client
\* puts frames on its socket only once the hub has taken the frames sent
\* before (HubIdle).  A client's own steps (sending, disconnecting, clearing,
\* its timers) stay interleaved freely with its receiving.  The open event
\* comes first on a socket, before the page can take its inbox, so it does
\* not wait for the hub: two pages' join frames may be pending together.
ClientsIdle == \A i \in Ids : toClient[i] = <<>>

HubIdle == \A i \in Ids : toHub[i] = <<>>

Pending(id, type) ==
    /\ ClientsIdle
    /\ id \in DOMAIN clients
    /\ toHub[id] # <<>>
    /\ Head(toHub[id]).type = type

Consume(id) == toHub' = [toHub EXCEPT ![id] = Tail(@)]

RemoveAt(s, i) == [k \in 1..(Len(s) - 1) |-> IF k < i THEN s[k] ELSE s[k + 1]]

\* the sessions the hub has with this roomId: what clients.forEach with
\* client.roomId === roomId walks.  A timer keeps, in present, the ones there
\* were when it was set; the hub itself keeps no such record.
InRoom(cl, roomId) == {i \in DOMAIN cl : cl[i].roomId = roomId}

\* handleJoin's clock for the joiner: every other client of the room with its
\* own entry's value, then the joiner at 0
JoinClock(cl, id, roomId) ==
    LET others == {e \in DOMAIN cl : cl[e].roomId = roomId /\ e # id}
    IN [x \in others \cup {id} |->
           IF x = id THEN 0 ELSE Get0(cl[x].vectorClock, x)]

\* handleJoin as it would be with the reply to the joiner sent ahead of the
\* two broadcasts
handleJoinReplyFirst(id) ==
    /\ Pending(id, "join")
    /\ LET data == Head(toHub[id])
           roomId == IF data.roomId = NoRoom THEN "main" ELSE data.roomId
           cl1 == [clients EXCEPT ![id].username = data.username,
                                  ![id].roomId = roomId]
       IN IF roomId \in Rooms
          THEN LET cl2 == [cl1 EXCEPT ![id].vectorClock = JoinClock(cl1, id, roomId)]
                   ch1 == Send(toClient, id, JoinSuccessFrame(getRoomUsers(cl2, roomId)))
                   ch2 == broadcastUserList(ch1, cl2, roomId)
                   ch3 == broadcastToRoom(ch2, cl2, roomId, SystemFrame(id), NoId)
               IN /\ clients' = cl2
                  /\ roomUsers' = roomUsers \cup {id}
                  /\ toClient' = ch3
          ELSE /\ clients' = cl1
               /\ UNCHANGED <<roomUsers, toClient>>
    /\ Consume(id)
    /\ UNCHANGED <<messageHistory, timers, nextId, wsState, app, events>>
    /\ UNCHANGED harnessVars

\* handleMessage, case 'join': handleJoin(client, data)
handleJoin(id) ==
    /\ Pending(id, "join")
    /\ LET data == Head(toHub[id])
           roomId == IF data.roomId = NoRoom THEN "main" ELSE data.roomId
           cl1 == [clients EXCEPT ![id].username = data.username,
                                  ![id].roomId = roomId]
       IN IF roomId \in Rooms
          THEN LET cl2 == [cl1 EXCEPT ![id].vectorClock = JoinClock(cl1, id, roomId)]
                   ch1 == broadcastUserList(toClient, cl2, roomId)
                   ch2 == broadcastToRoom(ch1, cl2, roomId, SystemFrame(id), NoId)
                   ch3 == Send(ch2, id, JoinSuccessFrame(getRoomUsers(cl2, roomId)))
               IN /\ clients' = cl2
                  /\ roomUsers' = roomUsers \cup {id}
                  /\ toClient' = ch3
          ELSE /\ clients' = cl1
               /\ UNCHANGED <<roomUsers, toClient>>
    /\ Consume(id)
    /\ UNCHANGED <<messageHistory, timers, nextId, wsState, app, events>>
    /\ UNCHANGED harnessVars

\* handleChat as it would be if the message held the sender's live Map and not
\* the array made from it: every stored or waiting message of the sender then
\* shows the clock after the latest increment
handleChatByReference(id) ==
    /\ Pending(id, "chat")
    /\ LET data == Head(toHub[id])
           roomId == clients[id].roomId
       IN IF roomId \notin Rooms
          THEN UNCHANGED <<clients, messageHistory, timers, toClient>>
          ELSE LET vc == Put(clients[id].vectorClock, id,
                             Get0(clients[id].vectorClock, id) + 1)
                   message == Message(Len(messageHistory) + 1, id,
                                      clients[id].username, vc, data.simulateDelay)
                   ch1 == IF data.simulateDelay
                          THEN toClient
                          ELSE broadcastToRoom(toClient, clients, roomId,
                                               ChatFrame(message), id)
                   ch2 == Send(ch1, id, DeliveredFrame(message.id))
                   ByReference(m) ==
                       IF m.userId = id THEN [m EXCEPT !.vectorClock = vc] ELSE m
                   held == [k \in DOMAIN messageHistory |->
                               ByReference(messageHistory[k])]
                   waiting == [k \in DOMAIN timers |->
                                  IF timers[k].kind = "chat"
                                  THEN [timers[k] EXCEPT !.msg = ByReference(@)]
                                  ELSE timers[k]]
               IN /\ clients' = [clients EXCEPT ![id].vectorClock = vc,
                                                   ![id].stamped = @ + 1]
                  /\ messageHistory' = Append(held, message)
                  /\ timers' = IF data.simulateDelay
                               THEN Append(waiting, [kind |-> "chat", roomId |-> roomId,
                                                     msg |-> message, exclude |-> id,
                                                     present |-> InRoom(clients, roomId)])
                               ELSE waiting
                  /\ toClient' = ch2
    /\ Consume(id)
    /\ UNCHANGED <<roomUsers, nextId, wsState, app, events>>
    /\ UNCHANGED harnessVars

\* handleMessage, case 'chat': handleChat(client, data).  The message id is a
\* fresh uuid; the history is only ever appended to, so its length numbers them.
handleChat(id) ==
    /\ Pending(id, "chat")
    /\ LET data == Head(toHub[id])
           roomId == clients[id].roomId
       IN IF roomId \notin Rooms
          THEN UNCHANGED <<clients, messageHistory, timers, toClient>>
          ELSE LET vc == Put(clients[id].vectorClock, id,
                             Get0(clients[id].vectorClock, id) + 1)
                   message == Message(Len(messageHistory) + 1, id,
                                      clients[id].username, vc, data.simulateDelay)
                   ch1 == IF data.simulateDelay
                          THEN toClient
                          ELSE broadcastToRoom(toClient, clients, roomId,
                                               ChatFrame(message), id)
                   ch2 == Send(ch1, id, DeliveredFrame(message.id))
               IN /\ clients' = [clients EXCEPT ![id].vectorClock = vc,
                                                   ![id].stamped = @ + 1]
                  /\ messageHistory' = Append(messageHistory, message)
                  /\ timers' = IF data.simulateDelay
                               THEN Append(timers, [kind |-> "chat", roomId |-> roomId,
                                                    msg |-> message, exclude |-> id,
                                                    present |-> InRoom(clients, roomId)])
                               ELSE timers
                  /\ toClient' = ch2
    /\ Consume(id)
    /\ UNCHANGED <<roomUsers, nextId, wsState, app, events>>
    /\ UNCHANGED harnessVars

\* handleMessage, case 'typing'
handleTyping(id) ==
    /\ Pending(id, "typing")
    /\ LET data == Head(toHub[id])
           ch == broadcastToRoom(toClient, clients, clients[id].roomId,
                                 TypingFrame(id, clients[id].username, data.isTyping), id)
       IN toClient' = ch
    /\ Consume(id)
    /\ UNCHANGED <<hubVars, wsState, app, events>>
    /\ UNCHANGED harnessVars

\* handleMessage, case 'request_history': sendHistory(client)
sendHistory(id) ==
    /\ Pending(id, "request_history")
    /\ LET history == IF clients[id].roomId \in Rooms THEN messageHistory ELSE <<>>
           ch == Send(toClient, id, HistoryFrame(SliceLast(history, HistoryWindow)))
       IN toClient' = ch
    /\ Consume(id)
    /\ UNCHANGED <<hubVars, wsState, app, events>>
    /\ UNCHANGED harnessVars

\* handleMessage, case 'get_users': sendUserList(client)
sendUserList(id) ==
    /\ Pending(id, "get_users")
    /\ LET ch == Send(toClient, id, UserListFrame(getRoomUsers(clients, clients[id].roomId)))
       IN toClient' = ch
    /\ Consume(id)
    /\ UNCHANGED <<hubVars, wsState, app, events>>
    /\ UNCHANGED harnessVars

\* case 'ping' as it would be if it counted a tick of the sender like a chat
handlePingTicks(id) ==
    /\ Pending(id, "ping")
    /\ LET ch == Send(toClient, id, PongFrame)
       IN toClient' = ch
    /\ clients' = [clients EXCEPT ![id].vectorClock =
                       Put(@, id, Get0(@, id) + 1)]
    /\ Consume(id)
    /\ UNCHANGED <<roomUsers, messageHistory, timers, nextId, wsState, app, events>>
    /\ UNCHANGED harnessVars

\* handleMessage, case 'ping'
handlePing(id) ==
    /\ Pending(id, "ping")
    /\ LET ch == Send(toClient, id, PongFrame)
       IN toClient' = ch
    /\ Consume(id)
    /\ UNCHANGED <<hubVars, wsState, app, events>>
    /\ UNCHANGED harnessVars

\* handleMessage as it would be if its catch closed the connection of a frame
\* it cannot handle
handleUnknownCloses(id) ==
    /\ \E t \in {"unknown", "garbage"} : Pending(id, t)
    /\ toHub' = [toHub EXCEPT ![id] = <<>>]
    /\ clients' = [x \in (DOMAIN clients) \ {id} |-> clients[x]]
    /\ roomUsers' = roomUsers \ {id}
    /\ wsState' = [wsState EXCEPT ![id] = "closed"]
    /\ UNCHANGED <<messageHistory, timers, nextId>>
    /\ UNCHANGED <<toClient, app, events>>
    /\ UNCHANGED harnessVars

\* handleMessage on a frame no case matches ("unknown": an unknown or missing
\* type falls through the switch; "garbage": JSON.parse throws and is caught)
handleUnknown(id) ==
    /\ \E t \in {"unknown", "garbage"} : Pending(id, t)
    /\ Consume(id)
    /\ clients' = [clients EXCEPT ![id].dropped = @ + 1]
    /\ UNCHANGED <<roomUsers, messageHistory, timers, nextId>>
    /\ UNCHANGED <<wsState, toClient, app, events>>
    /\ UNCHANGED harnessVars

\* ws 'close': handleDisconnect(ws).  The frames the peer sent before closing
\* were handled first.
handleDisconnect(id) ==
    /\ ClientsIdle
    /\ id \in DOMAIN clients
    /\ wsState[id] = "closed"
    /\ toHub[id] = <<>>
    /\ LET roomId == clients[id].roomId
       IN IF roomId \in Rooms
          THEN LET ch == broadcastToRoom(toClient, clients, roomId, SystemFrame(NoId), NoId)
               IN /\ toClient' = ch
                  /\ roomUsers' = roomUsers \ {id}
                  /\ timers' = Append(timers, [kind |-> "user_list", roomId |-> roomId,
                                               msg |-> NoMsg, exclude |-> NoId,
                                               present |-> {}])
          ELSE UNCHANGED <<toClient, roomUsers, timers>>
    /\ clients' = [x \in (DOMAIN clients) \ {id} |-> clients[x]]
    /\ UNCHANGED <<messageHistory, nextId, wsState, toHub, app, events>>
    /\ UNCHANGED harnessVars

\* a setTimeout callback of the hub runs: the deferred broadcast of handleChat,
\* or the user list that follows a disconnect
TimerFire(i) ==
    /\ ClientsIdle
    /\ i \in 1..Len(timers)
    /\ LET t == timers[i]
           ch == IF t.kind = "chat"
                 THEN broadcastToRoom(toClient, clients, t.roomId, ChatFrame(t.msg), t.exclude)
                 ELSE broadcastUserList(toClient, clients, t.roomId)
       IN toClient' = ch
    /\ timers' = RemoveAt(timers, i)
    /\ UNCHANGED <<clients, roomUsers, messageHistory, nextId, wsState, toHub, app, events>>
    /\ UNCHANGED harnessVars

\* =========================================================== CausalChatApp
\* The methods class VectorClockManager declares.  Calling any other name on
\* an instance is a TypeError ("... is not a function").
VectorClockManagerMethods ==
    {"addUser", "increment", "getClock", "getClockArray", "getClockString",
     "isCausallyReady", "canDeliverBufferedMessage", "getAllClocks",
     "getIndividualClockString", "syncWithUsers"}

\* merge as it would be if the class declared it: the entry-wise maximum
mergeMax(clock, snapshot) ==
    [threw |-> FALSE,
     clock |-> [k \in DOMAIN clock \cup DOMAIN snapshot |->
                   Max(Get0(clock, k), Get0(snapshot, k))]]

\* this.vectorClock.merge(snapshot), as the class answers it: merge is not
\* among its methods, so the call throws and the clock is left as it was.
merge(clock, snapshot) ==
    [threw |-> "merge" \notin VectorClockManagerMethods, clock |-> clock]

\* constructor(): the fields of a fresh app.  For the properties, received
\* lists the chat records the app was handed since the chat was last cleared,
\* lastMerge describes the last merge call on its clock, ticks counts the
\* increment() calls on its clock and sentAfter keeps, for each of them, the
\* ids of the chat records the app had been handed by then; replayed holds
\* the ids of the records handleHistory has handed to handleChatMessage.
NoMerge ==
    [called |-> FALSE, id |-> NoId, snapshot |-> EmptyMap,
     before |-> EmptyMap, after |-> EmptyMap]

NewApp ==
    [ws |-> NoId, isConnected |-> FALSE, userId |-> NoId,
     hasClock |-> FALSE, vectorClock |-> EmptyMap,
     users |-> {}, messages |-> <<>>, bufferedMessages |-> <<>>,
     typingUsers |-> {}, causalEngine |-> NewEngine, historyTimer |-> 0,
     received |-> <<>>, ticks |-> 0, sentAfter |-> <<>>,
     lastMerge |-> NoMerge, replayed |-> {}, notices |-> 0]

\* the ids of the chat records an app has been handed
Handed(a) == {a.received[i] : i \in 1..Len(a.received)}

\* the statement this.vectorClock.merge(message.vectorClock) in the app
callMerge(a, message) ==
    LET m == merge(a.vectorClock, message.vectorClock)
    IN [app |-> [a EXCEPT !.vectorClock = m.clock,
                          !.lastMerge = [called |-> TRUE, id |-> message.id,
                                         snapshot |-> message.vectorClock,
                                         before |-> a.vectorClock,
                                         after |-> m.clock]],
        threw |-> m.threw]

\* displayMessage(message)
displayMessage(a, message) == [a EXCEPT !.messages = Append(@, message)]

\* bufferMessage(message)
bufferMessage(a, message) == [a EXCEPT !.bufferedMessages = Append(@, message)]

\* bufferedMessages.splice(findIndex(m => m.id === messageId), 1)
SpliceById(list, messageId) ==
    IF \E i \in 1..Len(list) : list[i].id = messageId
    THEN RemoveAt(list, CHOOSE i \in 1..Len(list) :
                            /\ list[i].id = messageId
                            /\ \A j \in 1..(i - 1) : list[j].id # messageId)
    ELSE list

\* the forEach of deliverBufferedMessages over the ready ids, from index k: it
\* stops at the first callback that throws
RECURSIVE DeliverLoop(_, _, _)
DeliverLoop(a, readyMessages, k) ==
    IF k > Len(readyMessages) THEN [app |-> a, threw |-> FALSE]
    ELSE LET messageId == readyMessages[k]
             message == a.causalEngine.messageBuffer[
                            BufferIndex(a.causalEngine.messageBuffer, messageId)].message
             d == deliverMessage(a.causalEngine, messageId)
         IN IF ~d.delivered THEN DeliverLoop(a, readyMessages, k + 1)
            ELSE LET a1 == displayMessage([a EXCEPT !.causalEngine = d.engine], message)
                     a2 == [a1 EXCEPT !.bufferedMessages = SpliceById(@, messageId)]
                     m == callMerge(a2, message)
                 IN IF m.threw THEN m
                    ELSE DeliverLoop(m.app, readyMessages, k + 1)

\* deliverBufferedMessages()
deliverBufferedMessages(a) ==
    IF ~a.hasClock THEN [app |-> a, threw |-> FALSE]
    ELSE LET r == checkBufferedMessages(a.causalEngine, a.vectorClock)
         IN DeliverLoop([a EXCEPT !.causalEngine = r.engine], r.readyMessages, 1)

\* handleChatMessage from "Process through causal ordering engine" to its
\* end: processMessage, then display and drain, or buffer
handleChatMessageTail(a, data) ==
    LET r == processMessage(a.causalEngine, data, a.hasClock,
                            a.vectorClock, data.userId)
        a4 == [a EXCEPT !.causalEngine = r.engine]
    IN IF r.action = "throw" THEN [app |-> a4, threw |-> TRUE]
       ELSE IF r.action = "deliver_immediately"
       THEN deliverBufferedMessages(displayMessage(a4, data))
       ELSE [app |-> bufferMessage(a4, data), threw |-> FALSE]

\* handleChatMessage(data), data a chat record.  The result says whether the
\* handler threw; what it had done up to there stays done.
handleChatMessage(a, data) ==
    IF data.userId = NoId \/ data.username = NoName
    THEN [app |-> a, threw |-> FALSE]
    ELSE LET a1 == IF data.userId \in a.users THEN a
                   ELSE [a EXCEPT !.users = @ \cup {data.userId},
                                  !.vectorClock = IF a.hasClock
                                                  THEN addUser(@, data.userId) ELSE @]
             a2 == [a1 EXCEPT !.received = Append(@, data.id)]
             m == IF a2.hasClock THEN callMerge(a2, data)
                  ELSE [app |-> a2, threw |-> FALSE]
         IN IF m.threw THEN m ELSE handleChatMessageTail(m.app, data)

\* the forEach of handleHistory, from index k
RECURSIVE HistoryLoop(_, _, _)
HistoryLoop(a, messages, k) ==
    IF k > Len(messages) THEN [app |-> a, threw |-> FALSE]
    ELSE LET r == handleChatMessage([a EXCEPT !.replayed = @ \cup {messages[k].id}],
                                    messages[k])
         IN IF r.threw THEN r ELSE HistoryLoop(r.app, messages, k + 1)

\* handleInit(data)
handleInit(a, data) ==
    [a EXCEPT !.userId = data.clientId, !.hasClock = TRUE,
              !.vectorClock = NewClock(data.clientId), !.ticks = 0,
              !.sentAfter = <<>>,
              !.lastMerge = NoMerge]

\* the user list both handlers build: the users of the frame, then self
WithSelf(a, users) == IF a.userId # NoId THEN users \cup {a.userId} ELSE users

\* handleJoinSuccess(data)
handleJoinSuccess(a, data) ==
    [a EXCEPT !.users = WithSelf(a, data.users),
              !.vectorClock = IF a.hasClock
                              THEN syncWithUsers(@, WithSelf(a, data.users)) ELSE @,
              !.historyTimer = @ + 1]

\* handleUserList(data)
handleUserList(a, data) ==
    [a EXCEPT !.users = WithSelf(a, data.users),
              !.vectorClock = IF a.hasClock
                              THEN syncWithUsers(@, WithSelf(a, data.users)) ELSE @]

\* handleSystemMessage(data): ui.addSystemMessage appends the notice to the
\* messages container; notices counts the notices the container shows
handleSystemMessage(a, data) == [a EXCEPT !.notices = @ + 1]

\* handleTypingIndicator(data)
handleTypingIndicator(a, data) ==
    [a EXCEPT !.typingUsers = IF data.isTyping THEN @ \cup {data.username}
                              ELSE @ \ {data.username}]

\* ------------------------------------------------ the app's event handlers
Inbox(p, type) ==
    /\ app[p].isConnected
    /\ toClient[app[p].ws] # <<>>
    /\ Head(toClient[app[p].ws]).type = type

Receive(p) == toClient' = [toClient EXCEPT ![app[p].ws] = Tail(@)]

IsOpen(p) == app[p].ws # NoId /\ wsState[app[p].ws] = "open"

\* this.ws.send(frame)
WsSend(p, frames) ==
    IF IsOpen(p) THEN toHub' = [toHub EXCEPT ![app[p].ws] = @ \o frames]
    ELSE UNCHANGED toHub

\* The browsers differ in name only, so it is enough to look at the runs in
\* which they first connect in this order.
Below(q, p) ==
    <<q, p>> \in {<<"alice", "bob">>, <<"alice", "carol">>, <<"bob", "carol">>}

\* connect() in the browser and, at the hub, wss 'connection':
\* handleConnection(ws).  A page's first connection is free, connecting
\* again is one of the MaxEvents things the users do.
connect(p) ==
    /\ ClientsIdle
    /\ \A q \in Apps : Below(q, p) => app[q].ws # NoId
    /\ ~IsOpen(p)
    /\ nextId <= MaxConn
    /\ app' = [app EXCEPT ![p].ws = nextId]
    /\ wsState' = [wsState EXCEPT ![nextId] = "open"]
    /\ clients' = Put(clients, nextId, NewClientInfo)
    /\ toClient' = [toClient EXCEPT ![nextId] = <<InitFrame(nextId)>>]
    /\ nextId' = nextId + 1
    /\ IF app[p].ws = NoId THEN UNCHANGED events
       ELSE events < MaxEvents /\ events' = events + 1
    /\ UNCHANGED <<roomUsers, messageHistory, timers, toHub>>
    /\ UNCHANGED harnessVars

\* ws.onopen: handleConnectionOpen()
handleConnectionOpen(p) ==
    /\ IsOpen(p)
    /\ ~app[p].isConnected
    /\ app' = [app EXCEPT ![p].isConnected = TRUE]
    /\ toHub' = [toHub EXCEPT ![app[p].ws] =
                    Append(@, [Request("join") EXCEPT !.username = p, !.roomId = "main"])]
    /\ UNCHANGED <<hubVars, wsState, toClient, events>>
    /\ UNCHANGED harnessVars

\* ws.onmessage: handleMessage(event), one action per case of its switch
onInit(p) ==
    /\ Inbox(p, "init")
    /\ app' = [app EXCEPT ![p] = handleInit(@, Head(toClient[app[p].ws]))]
    /\ Receive(p)
    /\ UNCHANGED <<hubVars, wsState, toHub, events>>
    /\ UNCHANGED harnessVars

onJoinSuccess(p) ==
    /\ Inbox(p, "join_success")
    /\ app' = [app EXCEPT ![p] = handleJoinSuccess(@, Head(toClient[app[p].ws]))]
    /\ Receive(p)
    /\ UNCHANGED <<hubVars, wsState, toHub, events>>
    /\ UNCHANGED harnessVars

onUserList(p) ==
    /\ Inbox(p, "user_list")
    /\ app' = [app EXCEPT ![p] = handleUserList(@, Head(toClient[app[p].ws]))]
    /\ Receive(p)
    /\ UNCHANGED <<hubVars, wsState, toHub, events>>
    /\ UNCHANGED harnessVars

onChat(p) ==
    /\ Inbox(p, "chat")
    /\ app' = [app EXCEPT ![p] = handleChatMessage(@, Head(toClient[app[p].ws]).msg).app]
    /\ Receive(p)
    /\ UNCHANGED <<hubVars, wsState, toHub, events>>
    /\ UNCHANGED harnessVars

onHistory(p) ==
    /\ Inbox(p, "history")
    /\ app' = [app EXCEPT ![p] = HistoryLoop(@, Head(toClient[app[p].ws]).messages, 1).app]
    /\ Receive(p)
    /\ UNCHANGED <<hubVars, wsState, toHub, events>>
    /\ UNCHANGED harnessVars

onTyping(p) ==
    /\ Inbox(p, "user_typing")
    /\ app' = [app EXCEPT ![p] = handleTypingIndicator(@, Head(toClient[app[p].ws]))]
    /\ Receive(p)
    /\ UNCHANGED <<hubVars, wsState, toHub, events>>
    /\ UNCHANGED harnessVars

\* 'system', 'message_delivered', 'pong': handleSystemMessage shows the notice;
\* handleDeliveryConfirmation and handlePong change nothing the run looks at
onNotice(p) ==
    /\ \E t \in {"system", "message_delivered", "pong"} : Inbox(p, t)
    /\ LET data == Head(toClient[app[p].ws])
       IN app' = [app EXCEPT ![p] = IF data.type = "system"
                                    THEN handleSystemMessage(@, data) ELSE @]
    /\ Receive(p)
    /\ UNCHANGED <<hubVars, wsState, toHub, events>>
    /\ UNCHANGED harnessVars

\* the timeout of handleJoinSuccess: request the history if still connected
requestHistory(p) ==
    /\ HubIdle
    /\ app[p].historyTimer > 0
    /\ app' = [app EXCEPT ![p].historyTimer = @ - 1]
    /\ IF app[p].isConnected
       THEN WsSend(p, <<Request("request_history")>>)
       ELSE UNCHANGED toHub
    /\ UNCHANGED <<hubVars, wsState, toClient, events>>
    /\ UNCHANGED harnessVars

\* sendMessage(): tick, send the chat frame, show the local echo, then
\* sendTyping(false)
sendMessage(p, simulate) ==
    /\ HubIdle
    /\ app[p].isConnected
    /\ app[p].hasClock
    /\ events < MaxEvents
    /\ LET a == app[p]
           vectorClock == increment(a.vectorClock, a.userId)
           localMessage == Message(0 - (Len(a.messages) + 1), a.userId, p,
                                   vectorClock, simulate)
       IN app' = [app EXCEPT ![p] =
                     displayMessage([a EXCEPT !.vectorClock = vectorClock,
                                             !.ticks = @ + 1,
                                             !.sentAfter = Append(@, Handed(a))],
                                    localMessage)]
    /\ WsSend(p, <<[Request("chat") EXCEPT !.simulateDelay = simulate],
                   Request("typing")>>)
    /\ events' = events + 1
    /\ UNCHANGED <<hubVars, wsState, toClient>>
    /\ UNCHANGED harnessVars

\* sendTestMessage(text, delayMs): tick and send, no local echo
sendTestMessage(p, simulate) ==
    /\ HubIdle
    /\ app[p].isConnected
    /\ app[p].hasClock
    /\ events < MaxEvents
    /\ app' = [app EXCEPT ![p].vectorClock = increment(@, app[p].userId),
                          ![p].ticks = @ + 1,
                          ![p].sentAfter = Append(@, Handed(app[p]))]
    /\ WsSend(p, <<[Request("chat") EXCEPT !.simulateDelay = simulate]>>)
    /\ events' = events + 1
    /\ UNCHANGED <<hubVars, wsState, toClient>>
    /\ UNCHANGED harnessVars

\* the other frames the app sends: sendTyping(isTyping), refreshData(), the
\* heartbeat's ping
sendAux(p) ==
    /\ HubIdle
    /\ app[p].isConnected
    /\ events < MaxEvents
    /\ \E f \in {[Request("typing") EXCEPT !.isTyping = TRUE],
                 Request("get_users"), Request("ping")} :
          WsSend(p, <<f>>)
    /\ events' = events + 1
    /\ UNCHANGED <<hubVars, wsState, toClient, app>>
    /\ UNCHANGED harnessVars

\* frames a peer may put on its socket that the page never sends: a second
\* join, a join to a room the hub does not have, a chat ahead of the join, a
\* frame of unknown type and one that does not parse
HandMade ==
    {[Request("join") EXCEPT !.username = "mallory"],
     [Request("join") EXCEPT !.username = "mallory", !.roomId = "lobby"],
     Request("chat"), Request("unknown"), Request("garbage")}

sendHandMade(p) ==
    /\ HubIdle
    /\ IsOpen(p)
    /\ events < MaxEvents
    /\ \E f \in HandMade :
          toHub' = [toHub EXCEPT ![app[p].ws] = Append(@, f)]
    /\ events' = events + 1
    /\ UNCHANGED <<hubVars, wsState, toClient, app>>
    /\ UNCHANGED harnessVars

\* disconnect() and ws.onclose: handleConnectionClose()
disconnect(p) ==
    /\ ClientsIdle
    /\ events < MaxEvents
    /\ events' = events + 1
    /\ IsOpen(p)
    /\ app[p].isConnected
    /\ app' = [app EXCEPT ![p].isConnected = FALSE, ![p].typingUsers = {}]
    /\ wsState' = [wsState EXCEPT ![app[p].ws] = "closed"]
    /\ toClient' = [toClient EXCEPT ![app[p].ws] = <<>>]
    /\ UNCHANGED <<hubVars, toHub>>
    /\ UNCHANGED harnessVars

\* clearChat()
clearChat(p) ==
    /\ events < MaxEvents
    /\ events' = events + 1
    /\ app[p].messages # <<>> \/ app[p].causalEngine # NewEngine
          \/ app[p].received # <<>> \/ app[p].notices > 0
    /\ app' = [app EXCEPT ![p].messages = <<>>,
                          ![p].notices = 0,
                          ![p].causalEngine = reset(@),
                          ![p].bufferedMessages = <<>>,
                          ![p].received = <<>>,
                          ![p].replayed = {}]
    /\ UNCHANGED <<hubVars, netVars>>
    /\ UNCHANGED harnessVars

\* =========================================================== specification
HarnessIdle ==
    /\ hClock = NewClock(1)
    /\ hEngine = NewEngine
    /\ hLast = [op |-> "none"]

SysInit ==
    /\ clients = EmptyMap
    /\ roomUsers = {}
    /\ messageHistory = <<>>
    /\ timers = <<>>
    /\ nextId = 1
    /\ wsState = [i \in Ids |-> "none"]
    /\ toHub = [i \in Ids |-> <<>>]
    /\ toClient = [i \in Ids |-> <<>>]
    /\ app = [p \in Apps |-> NewApp]
    /\ events = 0

Init == SysInit /\ HarnessIdle

Next ==
    \/ \E p \in Duo : connect(p)
    \/ \E p \in Duo : handleConnectionOpen(p)
    \/ \E p \in Duo : onInit(p)
    \/ \E p \in Duo : onJoinSuccess(p)
    \/ \E p \in Duo : onUserList(p)
    \/ \E p \in Duo : onChat(p)
    \/ \E p \in Duo : onHistory(p)
    \/ \E p \in Duo : onTyping(p)
    \/ \E p \in Duo : onNotice(p)
    \/ \E p \in Duo : requestHistory(p)
    \/ \E p \in Duo, simulate \in BOOLEAN : sendMessage(p, simulate)
    \/ \E p \in Duo, simulate \in BOOLEAN : sendTestMessage(p, simulate)
    \/ \E p \in Duo : sendAux(p)
    \/ \E p \in Duo : sendHandMade(p)
    \/ \E p \in Duo : disconnect(p)
    \/ \E p \in Duo : clearChat(p)
    \/ \E id \in Ids : handleJoin(id)
    \/ \E id \in Ids : handleChat(id)
    \/ \E id \in Ids : handleTyping(id)
    \/ \E id \in Ids : sendHistory(id)
    \/ \E id \in Ids : sendUserList(id)
    \/ \E id \in Ids : handlePing(id)
    \/ \E id \in Ids : handleUnknown(id)
    \/ \E id \in Ids : handleDisconnect(id)
    \/ \E i \in 1..Len(timers) : TimerFire(i)

Spec == Init /\ [][Next]_vars

\* ------------------------------------------------------------ three pages
\* alice, bob and carol with the page's own traffic only: connecting,
\* joining, the history request and sendMessage.  Of the runs of three pages
\* these are the ones in which a page connects once the pages before it are
\* in the room, and in which the history timer of handleJoinSuccess runs out
\* once the room has a history.
connectInTurn(p) ==
    /\ HubIdle
    /\ \A q \in Apps : Below(q, p) => app[q].users # {}
    /\ connect(p)

requestHistoryLate(p) ==
    /\ messageHistory # <<>>
    /\ requestHistory(p)

TrioNext ==
    \/ \E p \in Apps : connectInTurn(p)
    \/ \E p \in Apps : handleConnectionOpen(p)
    \/ \E p \in Apps : onInit(p)
    \/ \E p \in Apps : onJoinSuccess(p)
    \/ \E p \in Apps : onUserList(p)
    \/ \E p \in Apps : onChat(p)
    \/ \E p \in Apps : onHistory(p)
    \/ \E p \in Apps : onTyping(p)
    \/ \E p \in Apps : onNotice(p)
    \/ \E p \in Apps : requestHistoryLate(p)
    \/ \E p \in Apps, simulate \in BOOLEAN : sendMessage(p, simulate)
    \/ \E id \in Ids : handleJoin(id)
    \/ \E id \in Ids : handleChat(id)
    \/ \E id \in Ids : handleTyping(id)
    \/ \E id \in Ids : sendHistory(id)
    \/ \E i \in 1..Len(timers) : TimerFire(i)

TrioSpec == Init /\ [][TrioNext]_vars

\* ============================================================ the hub alone
\* The hub with bare sockets in place of pages, for long histories: a peer
\* connects, writes join, chat and request_history frames and takes what the
\* hub sends it.  There are MaxPeers sockets; the first one writes the chat
\* frames, once it has joined and MaxStored of them at most, so that the
\* history is one sequence for each length.
MaxPeers == 2
MaxStored == 52

Writer == CHOOSE i \in Ids : \A j \in Ids : i <= j

\* wss 'connection': handleConnection(ws)
handleConnection ==
    /\ ClientsIdle
    /\ nextId <= MaxPeers
    /\ wsState' = [wsState EXCEPT ![nextId] = "open"]
    /\ clients' = Put(clients, nextId, NewClientInfo)
    /\ toClient' = [toClient EXCEPT ![nextId] = <<InitFrame(nextId)>>]
    /\ nextId' = nextId + 1
    /\ UNCHANGED <<roomUsers, messageHistory, timers, toHub, app, events>>
    /\ UNCHANGED harnessVars

\* a frame a peer writes; ws 'message' hands it to handleMessage
peerWrite(id, f) ==
    /\ HubIdle
    /\ id \in DOMAIN clients
    /\ wsState[id] = "open"
    /\ toHub' = [toHub EXCEPT ![id] = Append(@, f)]
    /\ UNCHANGED <<hubVars, wsState, toClient, app, events>>
    /\ UNCHANGED harnessVars

peerJoin(id) ==
    /\ id \in DOMAIN clients
    /\ clients[id].username = NoName
    /\ peerWrite(id, [Request("join") EXCEPT !.username = "mallory", !.roomId = "main"])

peerChat(id) ==
    /\ id = Writer
    /\ id \in roomUsers
    /\ Len(messageHistory) < MaxStored
    /\ peerWrite(id, Request("chat"))

peerRequestHistory(id) == peerWrite(id, Request("request_history"))

\* the peer takes the frame at the head of its inbox
peerTake(id) ==
    /\ toClient[id] # <<>>
    /\ toClient' = [toClient EXCEPT ![id] = Tail(@)]
    /\ UNCHANGED <<hubVars, wsState, toHub, app, events>>
    /\ UNCHANGED harnessVars

LoadNext ==
    \/ handleConnection
    \/ \E id \in Ids : peerJoin(id)
    \/ \E id \in Ids : peerChat(id)
    \/ \E id \in Ids : peerRequestHistory(id)
    \/ \E id \in Ids : peerTake(id)
    \/ \E id \in Ids : handleJoin(id)
    \/ \E id \in Ids : handleChat(id)
    \/ \E id \in Ids : sendHistory(id)

LoadSpec == Init /\ [][LoadNext]_vars

\* ============================================================ component run
\* One VectorClockManager (of user 1) and one CausalOrderEngine, called the
\* way the class interfaces allow: any method, any order, any clock a Map of
\* user ids to counters can hold.
HIds == {1, 2, 3}

\* the manager's own user id: the first of them
HSelf == CHOOSE i \in HIds : \A j \in HIds : i <= j

\* every clock over HIds with counters up to MaxTick
Clocks == UNION {[K -> 0..MaxTick] : K \in SUBSET HIds}

HClocks == {c \in Clocks : HSelf \in DOMAIN c}

\* the chat records offered to the engine: a message id names one record.
\* 11, 12 are user 2's first and second message, 13 is user 3's answer to 11,
\* 14 and 15 were sent by users 2 and 3 after each had seen one message of
\* user 1.
HPool ==
    {Message(11, 2, "bob", (2 :> 1), FALSE),
     Message(12, 2, "bob", (2 :> 2), FALSE),
     Message(13, 3, "carol", (2 :> 1) @@ (3 :> 1), FALSE),
     Message(14, 2, "bob", (1 :> 1) @@ (2 :> 1), FALSE),
     Message(15, 3, "carol", (1 :> 1) @@ (3 :> 1), FALSE)}

HIdle == [op |-> "none"]

\* vectorClock.isCausallyReady(messageClock, senderId), the call alone
hReady(messageClock, senderId) ==
    /\ hLast' = [op |-> "isCausallyReady", clock |-> hClock,
                 messageClock |-> messageClock, senderId |-> senderId,
                 result |-> isCausallyReady(hClock, messageClock, senderId)]
    /\ UNCHANGED <<hClock, hEngine>>
    /\ UNCHANGED sysVars

\* vectorClock.addUser(userId)
hAddUser(userId) ==
    /\ userId \notin DOMAIN hClock
    /\ hClock' = addUser(hClock, userId)
    /\ hLast' = [op |-> "addUser"]
    /\ UNCHANGED hEngine
    /\ UNCHANGED sysVars

\* vectorClock.increment()
hIncrement ==
    /\ hClock[HSelf] < MaxTick
    /\ hClock' = increment(hClock, HSelf)
    /\ hLast' = [op |-> "increment"]
    /\ UNCHANGED hEngine
    /\ UNCHANGED sysVars

\* engine.processMessage(message, vectorClock, message.userId)
hProcessMessage(message) ==
    /\ hEngine.stats.totalProcessed < MaxOffers
    /\ LET r == processMessage(hEngine, message, TRUE, hClock, message.userId)
       IN /\ hEngine' = r.engine
          /\ hLast' = [op |-> "processMessage", id |-> message.id,
                       action |-> r.action, before |-> hEngine]
    /\ UNCHANGED hClock
    /\ UNCHANGED sysVars

\* engine.checkBufferedMessages(vectorClock)
hCheckBufferedMessages ==
    /\ \A i \in 1..Len(hEngine.messageBuffer) :
          hEngine.messageBuffer[i].attempts < MaxAttempts
    /\ LET r == checkBufferedMessages(hEngine, hClock)
       IN /\ hEngine' = r.engine
          /\ hLast' = [op |-> "checkBufferedMessages",
                       readyMessages |-> r.readyMessages, before |-> hEngine]
    /\ UNCHANGED hClock
    /\ UNCHANGED sysVars

\* engine.deliverMessage(messageId)
hDeliverMessage(messageId) ==
    /\ LET r == deliverMessage(hEngine, messageId)
       IN /\ hEngine' = r.engine
          /\ hLast' = [op |-> "deliverMessage", id |-> messageId,
                       delivered |-> r.delivered, before |-> hEngine]
    /\ UNCHANGED hClock
    /\ UNCHANGED sysVars

\* engine.reset()
hReset ==
    /\ hEngine # NewEngine
    /\ hEngine' = reset(hEngine)
    /\ hLast' = [op |-> "reset"]
    /\ UNCHANGED hClock
    /\ UNCHANGED sysVars

\* the clock class alone, from any clock it can hold
ClockInit ==
    /\ SysInit
    /\ hClock \in HClocks
    /\ hEngine = NewEngine
    /\ hLast = HIdle

ClockNext ==
    \/ \E mc \in Clocks, senderId \in HIds : hReady(mc, senderId)
    \/ \E userId \in HIds : hAddUser(userId)
    \/ hIncrement

ClockSpec == ClockInit /\ [][ClockNext]_vars

\* the engine with the clock of a fresh manager
EngineInit ==
    /\ SysInit
    /\ HarnessIdle

EngineNext ==
    \/ \E userId \in HIds : hAddUser(userId)
    \/ hIncrement
    \/ \E message \in HPool : hProcessMessage(message)
    \/ hCheckBufferedMessages
    \/ \E message \in HPool : hDeliverMessage(message.id)
    \/ hReset

EngineSpec == EngineInit /\ [][EngineNext]_vars

\* the engine offered records against any clock the manager can hold: the
\* clock is handed to processMessage as an argument and the engine never
\* writes it
OfferNext ==
    \/ \E message \in HPool : hProcessMessage(message)
    \/ hReset

OfferSpec == ClockInit /\ [][OfferNext]_vars

\* the page's own methods on one app that has handled its 'init' frame: the
\* clock's addUser and increment, the part of handleChatMessage that follows
\* its merge call, and deliverBufferedMessages
Page == "carol"

PageInit == [handleInit(NewApp, [clientId |-> HSelf]) EXCEPT !.users = {HSelf}]

PageStep(a, last) ==
    /\ app' = [app EXCEPT ![Page] = a]
    /\ hLast' = last
    /\ UNCHANGED <<hClock, hEngine>>
    /\ UNCHANGED <<hubVars, netVars, events>>

\* users.set(userId, ...) and vectorClock.addUser(userId)
dAddUser(userId) ==
    /\ userId \notin app[Page].users
    /\ PageStep([app[Page] EXCEPT !.users = @ \cup {userId},
                                  !.vectorClock = addUser(@, userId)],
                [op |-> "addUser"])

\* vectorClock.increment()
dIncrement ==
    /\ app[Page].ticks < MaxTick
    /\ PageStep([app[Page] EXCEPT !.vectorClock = increment(@, HSelf),
                                  !.ticks = @ + 1,
                                  !.sentAfter = Append(@, Handed(app[Page]))],
                [op |-> "increment"])

\* handleChatMessage past its merge call
dHandleChatMessageTail(message) ==
    /\ app[Page].causalEngine.stats.totalProcessed < MaxOffers
    /\ LET r == handleChatMessageTail(app[Page], message)
       IN PageStep(r.app, [op |-> "handleChatMessageTail", id |-> message.id,
                           threw |-> r.threw, before |-> app[Page]])

\* deliverBufferedMessages()
dDeliverBufferedMessages ==
    /\ \A i \in 1..Len(app[Page].causalEngine.messageBuffer) :
          app[Page].causalEngine.messageBuffer[i].attempts < MaxAttempts
    /\ LET r == deliverBufferedMessages(app[Page])
       IN PageStep(r.app, [op |-> "deliverBufferedMessages",
                           threw |-> r.threw, before |-> app[Page]])

DrainInit ==
    /\ clients = EmptyMap
    /\ roomUsers = {}
    /\ messageHistory = <<>>
    /\ timers = <<>>
    /\ nextId = 1
    /\ wsState = [i \in Ids |-> "none"]
    /\ toHub = [i \in Ids |-> <<>>]
    /\ toClient = [i \in Ids |-> <<>>]
    /\ app = [p \in Apps |-> IF p = Page THEN PageInit ELSE NewApp]
    /\ events = 0
    /\ HarnessIdle

DrainNext ==
    \/ \E userId \in HIds : dAddUser(userId)
    \/ dIncrement
    \/ \E message \in HPool : dHandleChatMessageTail(message)
    \/ dDeliverBufferedMessages

DrainSpec == DrainInit /\ [][DrainNext]_vars

\* the same page also handed 'user_list' and 'system' frames, with whatever
\* its buffer holds at the time
MaxNotices == 1

\* handleMessage, case 'user_list': handleUserList(data)
dHandleUserList(users) ==
    /\ users \subseteq HIds
    /\ PageStep(handleUserList(app[Page], UserListFrame(users)),
                [op |-> "handleUserList"])

\* handleMessage, case 'system': handleSystemMessage(data)
dHandleSystemMessage ==
    /\ app[Page].notices < MaxNotices
    /\ PageStep(handleSystemMessage(app[Page], SystemFrame(NoId)),
                [op |-> "handleSystemMessage"])

NoticeNext ==
    \/ DrainNext
    \/ \E users \in SUBSET HIds : dHandleUserList(users)
    \/ dHandleSystemMessage

NoticeSpec == DrainInit /\ [][NoticeNext]_vars

\* ================================================================ properties
Range(s) == {s[i] : i \in 1..Len(s)}

\* the position of the first record with this id in a list of messages, 0 if none
ShownAt(list, id) ==
    IF \E i \in 1..Len(list) : list[i].id = id
    THEN CHOOSE i \in 1..Len(list) :
            list[i].id = id /\ \A j \in 1..(i - 1) : list[j].id # id
    ELSE 0

\* the position of the first occurrence of x in a sequence, 0 if none
FirstAt(s, x) ==
    IF x \in Range(s)
    THEN CHOOSE i \in 1..Len(s) : s[i] = x /\ \A j \in 1..(i - 1) : s[j] # x
    ELSE 0

\* clock a happens-before clock b
HappensBefore(a, b) ==
    /\ \A k \in DOMAIN a \cup DOMAIN b : Get0(a, k) <= Get0(b, k)
    /\ \E k \in DOMAIN a \cup DOMAIN b : Get0(a, k) < Get0(b, k)

\* the chat records of other users the app shows (its own echoes have ids
\* below 0)
ShownReceived(a) == {a.messages[i].id : i \in 1..Len(a.messages)} \cap (1..Len(messageHistory))

\* C1: every message a recipient displays from handleChatMessage or from the
\* buffer comes after every message whose stamped clock happens-before its own.
C1_CausalDelivery ==
    \A p \in Apps : \A i, j \in 1..Len(messageHistory) :
        /\ j \in ShownReceived(app[p])
        /\ HappensBefore(messageHistory[i].vectorClock, messageHistory[j].vectorClock)
        => /\ ShownAt(app[p].messages, i) > 0
           /\ ShownAt(app[p].messages, i) < ShownAt(app[p].messages, j)

\* C1, what the runs show: no app ever displays a chat record it received.
C1_NothingReceivedIsShown == \A p \in Apps : ShownReceived(app[p]) = {}

\* C2: once a recipient has been handed two messages of one sender, in either
\* order, it shows both, the one stamped first before the other.
C2_PerSenderFifo ==
    \A p \in Apps : \A i, j \in 1..Len(messageHistory) :
        /\ i < j
        /\ messageHistory[i].userId = messageHistory[j].userId
        /\ {i, j} \subseteq Range(app[p].received)
        => /\ ShownAt(app[p].messages, i) > 0
           /\ ShownAt(app[p].messages, i) < ShownAt(app[p].messages, j)

\* C2: a recipient has been handed two messages of one sender.
C2_HandedBoth ==
    \E p \in Apps : \E i, j \in 1..Len(messageHistory) :
        /\ i < j
        /\ messageHistory[i].userId = messageHistory[j].userId
        /\ {i, j} \subseteq Range(app[p].received)

\* C3: isCausallyReady answers true exactly when the sender's entry is the
\* local one plus 1 and no other entry of either map is ahead of the local
\* clock, a missing entry read as 0.
C3_ReadyIff ==
    hLast.op = "isCausallyReady" =>
        (hLast.result <=>
            /\ Get0(hLast.messageClock, hLast.senderId)
                  = Get0(hLast.clock, hLast.senderId) + 1
            /\ \A p \in (DOMAIN hLast.clock \cup DOMAIN hLast.messageClock)
                            \ {hLast.senderId} :
                  Get0(hLast.messageClock, p) <= Get0(hLast.clock, p))

\* C3: the call answered true for a message clock that holds a user the local
\* clock does not know.
C3_UnknownUser ==
    /\ hLast.op = "isCausallyReady"
    /\ hLast.result
    /\ ~(DOMAIN hLast.messageClock \subseteq DOMAIN hLast.clock)

C5_ReleasedInOrder ==
    \A p \in Apps : \A i, j \in 1..Len(messageHistory) :
        /\ i < j
        /\ messageHistory[i].userId = messageHistory[j].userId
        /\ {i, j} \subseteq Range(app[p].received)
        /\ FirstAt(app[p].received, j) < FirstAt(app[p].received, i)
        => /\ ShownAt(app[p].messages, i) > 0
           /\ ShownAt(app[p].messages, i) < ShownAt(app[p].messages, j)
           /\ j \notin BufferIds(app[p].causalEngine.messageBuffer)
           /\ ShownAt(app[p].bufferedMessages, j) = 0

\* C5: a recipient was handed the later message first.
C5_LaterFirst ==
    \E p \in Apps : \E i, j \in 1..Len(messageHistory) :
        /\ i < j
        /\ messageHistory[i].userId = messageHistory[j].userId
        /\ {i, j} \subseteq Range(app[p].received)
        /\ FirstAt(app[p].received, j) < FirstAt(app[p].received, i)

\* C6: processMessage on an id that is buffered or was delivered reports a
\* duplicate and changes neither the buffer nor the delivered list.
C6_DuplicateSuppressed ==
    /\ hLast.op = "processMessage"
    /\ \/ hLast.id \in BufferIds(hLast.before.messageBuffer)
       \/ hLast.id \in Range(hLast.before.deliveredMessages)
    => /\ hLast.action = "duplicate"
       /\ hEngine.messageBuffer = hLast.before.messageBuffer
       /\ hEngine.deliveredMessages = hLast.before.deliveredMessages

\* C6: the engine was offered an id it had buffered or delivered.
C6_OfferedAgain ==
    /\ hLast.op = "processMessage"
    /\ \/ hLast.id \in BufferIds(hLast.before.messageBuffer)
       \/ hLast.id \in Range(hLast.before.deliveredMessages)

\* C7: a message's clock is merged into the recipient's clock only on the
\* delivery of that message: the app calls merge for delivered messages only.
C7_MergeOnlyOnDelivery ==
    \A p \in Apps :
        app[p].lastMerge.called =>
            app[p].lastMerge.id \in Range(app[p].causalEngine.deliveredMessages)

\* C7: an app has called merge.
C7_MergeCalled == \E p \in Apps : app[p].lastMerge.called

C9_MergeIsMax ==
    \A p \in Apps :
        LET lm == app[p].lastMerge
        IN lm.called =>
              lm.after = [k \in DOMAIN lm.before \cup DOMAIN lm.snapshot |->
                             Max(Get0(lm.before, k), Get0(lm.snapshot, k))]

\* C9: an app called merge with a snapshot that is ahead of its clock.
C9_MergeAhead ==
    \E p \in Apps :
        /\ app[p].lastMerge.called
        /\ \E k \in DOMAIN app[p].lastMerge.snapshot :
              app[p].lastMerge.snapshot[k] > Get0(app[p].lastMerge.before, k)

\* C10: the hub-side clock's own entry of a connection is the number of chat
\* frames stamped for it, and a client clock's own entry is the number of
\* increment() calls on it.
C10_OwnEntryCounts ==
    /\ \A id \in DOMAIN clients :
          Get0(clients[id].vectorClock, id) = clients[id].stamped
    /\ \A p \in Apps :
          app[p].hasClock => Get0(app[p].vectorClock, app[p].userId) = app[p].ticks

\* C10: the hub-side half alone.
C10_HubEntryCounts ==
    \A id \in DOMAIN clients :
        Get0(clients[id].vectorClock, id) = clients[id].stamped

\* C10: the client half alone.
C10_ClientEntryCounts ==
    \A p \in Apps :
        app[p].hasClock => Get0(app[p].vectorClock, app[p].userId) = app[p].ticks

\* C10: a connection joins again after the hub stamped a chat frame for it.
C10_JoinedAfterChat ==
    \E id \in DOMAIN clients :
        /\ clients[id].stamped > 0
        /\ Get0(clients[id].vectorClock, id) = 0

\* clock b has every key of clock a, none with a smaller counter
GrewFrom(a, b) ==
    /\ DOMAIN a \subseteq DOMAIN b
    /\ \A k \in DOMAIN a : a[k] <= b[k]

\* C11, the hub-side half in a state: a connection's clock holds its own entry.
C11_HubOwnEntryPresent ==
    \A id \in DOMAIN clients : id \in DOMAIN clients[id].vectorClock

\* C11, the hub-side half in a step: a connection's clock loses no key and no
\* entry of it decreases.
C11_HubOnlyGrows ==
    [][\A id \in DOMAIN clients \cap DOMAIN clients' :
          GrewFrom(clients[id].vectorClock, clients'[id].vectorClock)]_vars

\* C11, the client half: while a page keeps its session, its clock holds its
\* own entry, loses no key and no entry of it decreases.
C11_ClientOnlyGrows ==
    [][\A p \in Apps :
          /\ app[p].hasClock => app[p].userId \in DOMAIN app[p].vectorClock
          /\ app[p].hasClock /\ app'[p].userId = app[p].userId =>
                GrewFrom(app[p].vectorClock, app'[p].vectorClock)]_vars

\* C11: in every session's clock, hub-side and client-side, the own entry is
\* there from the session's birth, no entry ever decreases and no key is ever
\* removed.
C11_ClocksOnlyGrow ==
    [][/\ \A id \in DOMAIN clients : id \in DOMAIN clients[id].vectorClock
       /\ \A id \in DOMAIN clients \cap DOMAIN clients' :
             GrewFrom(clients[id].vectorClock, clients'[id].vectorClock)
       /\ \A p \in Apps :
             /\ app[p].hasClock => app[p].userId \in DOMAIN app[p].vectorClock
             /\ app[p].hasClock /\ app'[p].userId = app[p].userId =>
                   GrewFrom(app[p].vectorClock, app'[p].vectorClock)]_vars

\* C11: a peer has left and a connection that knew it is still there.
C11_PeerLeft ==
    \E id \in DOMAIN clients :
        \E k \in DOMAIN clients[id].vectorClock : k \notin DOMAIN clients

\* the pages whose session has this user id
PagesOf(userId) == {p \in Apps : app[p].userId = userId}

\* app a shows record i, keeps it in neither buffer
Delivered(a, i) ==
    /\ ShownAt(a.messages, i) > 0
    /\ i \notin BufferIds(a.causalEngine.messageBuffer)
    /\ ShownAt(a.bufferedMessages, i) = 0

\* C12, the case: two users have sent one message each, the second without
\* having been handed the first, and a third page has been handed both.
C12_Concurrent(r) ==
    /\ Len(messageHistory) = 2
    /\ messageHistory[1].userId # messageHistory[2].userId
    /\ \A k \in {1, 2} :
          /\ messageHistory[k].userId # app[r].userId
          /\ \E q \in PagesOf(messageHistory[k].userId) :
                app[q].sentAfter = <<{}>>
    /\ {1, 2} \subseteq Handed(app[r])

\* C12: the third page delivers both concurrent messages, buffers neither, and
\* its clock has 1 for each sender and 0 for itself.
C12_ConcurrentWrites ==
    \A r \in Apps :
        C12_Concurrent(r) =>
            /\ Delivered(app[r], 1)
            /\ Delivered(app[r], 2)
            /\ Get0(app[r].vectorClock, messageHistory[1].userId) = 1
            /\ Get0(app[r].vectorClock, messageHistory[2].userId) = 1
            /\ Get0(app[r].vectorClock, app[r].userId) = 0

\* C12: a third page has been handed two concurrent messages.
C12_HandedConcurrent == \E r \in Apps : C12_Concurrent(r)

\* C13, the case: m1 of one user, then m2 of another who had been handed m1
\* before sending.
C13_Chain ==
    /\ Len(messageHistory) = 2
    /\ messageHistory[1].userId # messageHistory[2].userId
    /\ \E q \in PagesOf(messageHistory[2].userId) : app[q].sentAfter = <<{1}>>

\* C13: the sender of m2 displayed m1, m2 carries 1 for both senders, and a
\* third page handed m2 and then m1 delivers m1, then m2, and ends with the
\* clock 1, 1, 0.
C13_CausalChain ==
    C13_Chain =>
        /\ \A q \in PagesOf(messageHistory[2].userId) : ShownAt(app[q].messages, 1) > 0
        /\ Get0(messageHistory[2].vectorClock, messageHistory[1].userId) = 1
        /\ Get0(messageHistory[2].vectorClock, messageHistory[2].userId) = 1
        /\ \A r \in Apps :
              /\ app[r].userId \notin {messageHistory[1].userId, messageHistory[2].userId}
              /\ {1, 2} \subseteq Handed(app[r])
              /\ FirstAt(app[r].received, 2) < FirstAt(app[r].received, 1)
              => /\ Delivered(app[r], 1)
                 /\ Delivered(app[r], 2)
                 /\ ShownAt(app[r].messages, 1) < ShownAt(app[r].messages, 2)
                 /\ Get0(app[r].vectorClock, messageHistory[1].userId) = 1
                 /\ Get0(app[r].vectorClock, messageHistory[2].userId) = 1
                 /\ Get0(app[r].vectorClock, app[r].userId) = 0

\* C13, the hub's part alone: m2 carries 1 for the sender of m1.
C13_StampCarriesSeen ==
    C13_Chain => Get0(messageHistory[2].vectorClock, messageHistory[1].userId) = 1

\* C13: the chain happened and a third page was handed m2 before m1.
C13_ReorderedAtThird ==
    /\ C13_Chain
    /\ \E r \in Apps :
          /\ app[r].userId \notin {messageHistory[1].userId, messageHistory[2].userId}
          /\ {1, 2} \subseteq Handed(app[r])
          /\ FirstAt(app[r].received, 2) < FirstAt(app[r].received, 1)

\* C14, the case: two delayed messages of one sender, stamped i then j, whose
\* broadcasts reached page p in the order j, i.
C14_OutOfSendOrder(p, i, j) ==
    /\ i < j
    /\ messageHistory[i].userId = messageHistory[j].userId
    /\ messageHistory[i].delayed /\ messageHistory[j].delayed
    /\ {i, j} \subseteq Handed(app[p])
    /\ FirstAt(app[p].received, j) < FirstAt(app[p].received, i)

\* C14: a recipient that the two delayed broadcasts of one sender reached out
\* of send order displays the two messages in send order.
C14_DelayedShownInSendOrder ==
    \A p \in Apps : \A i, j \in 1..Len(messageHistory) :
        C14_OutOfSendOrder(p, i, j) =>
            /\ ShownAt(app[p].messages, i) > 0
            /\ ShownAt(app[p].messages, j) > 0
            /\ ShownAt(app[p].messages, i) < ShownAt(app[p].messages, j)

\* C14: the later delayed broadcast was not held back behind the earlier one:
\* it reached a recipient first.
C14_SecondBroadcastFirst ==
    \E p \in Apps : \E i, j \in 1..Len(messageHistory) : C14_OutOfSendOrder(p, i, j)

\* C15, the clock the joiner is to get: every member of the room with the own
\* entry of that member's clock, and the joiner with 0.
C15_Expected(id) ==
    [m \in (roomUsers \ {id}) \cup {id} |->
        IF m = id THEN 0 ELSE Get0(clients[m].vectorClock, m)]

\* C15: a join into a room the hub has leaves the joiner's hub-side clock with
\* exactly the members' own entries and its own entry 0.
C15_JoinClockExact ==
    [][\A id \in Ids :
          handleJoin(id) /\ clients'[id].roomId \in Rooms =>
              clients'[id].vectorClock = C15_Expected(id)]_vars

\* C15: a session joined a room that had a member already.
C15_JoinedSecond ==
    \E id \in DOMAIN clients :
        /\ id \in roomUsers
        /\ \E m \in roomUsers \ {id} : m \in DOMAIN clients[id].vectorClock

\* C16, the count the replay is to leave for sender u: the highest own entry
\* among u's records of the frame.
C16_LastStamp(ms, u) ==
    LET S == {Get0(ms[k].vectorClock, u) : k \in {k \in 1..Len(ms) : ms[k].userId = u}}
    IN CHOOSE n \in S : \A m \in S : m <= n

\* C16: when a page that has sent nothing has replayed a history frame, every
\* record of the frame is displayed, causally earlier records first, none is
\* left in a buffer, and the page's clock holds each sender's last count and 0
\* for the page itself.
C16_HistoryReplayed ==
    [][\A p \in Apps :
          onHistory(p) /\ app[p].ticks = 0 =>
              LET ms == Head(toClient[app[p].ws]).messages
                  a == app'[p]
              IN /\ \A k \in 1..Len(ms) : Delivered(a, ms[k].id)
                 /\ \A k, l \in 1..Len(ms) :
                       HappensBefore(ms[k].vectorClock, ms[l].vectorClock)
                           => ShownAt(a.messages, ms[k].id) < ShownAt(a.messages, ms[l].id)
                 /\ a.bufferedMessages = <<>>
                 /\ Get0(a.vectorClock, a.userId) = 0
                 /\ \A k \in 1..Len(ms) :
                       ms[k].userId # a.userId =>
                           Get0(a.vectorClock, ms[k].userId)
                               = C16_LastStamp(ms, ms[k].userId)]_vars

\* C16: a page that has sent nothing has replayed a record of another user.
C16_LateJoinerReplayed ==
    \E p \in Apps :
        /\ app[p].ticks = 0
        /\ \E i \in app[p].replayed :
              /\ i \in 1..Len(messageHistory)
              /\ messageHistory[i].userId # app[p].userId

\* C17, the sessions a chat frame of session s in room r is for: every other
\* session with that roomId and a writable transport.
C17_Recipients(r, s) ==
    {i \in DOMAIN clients : i # s /\ clients[i].roomId = r /\ wsState[i] = "open"}

\* the chat frames with message id k in an inbox
C17_Copies(q, k) ==
    Cardinality({j \in 1..Len(q) : q[j].type = "chat" /\ q[j].msg.id = k})

\* the chat timers of message id k
C17_Timers(ts, k) ==
    Cardinality({j \in 1..Len(ts) : ts[j].kind = "chat" /\ ts[j].msg.id = k})

\* this step puts message m of session s in room r on the inbox of each of its
\* recipients once and, with ack, the acknowledgement on that of s
C17_Fanout(m, r, s, ack) ==
    \A i \in Ids :
        toClient'[i] = toClient[i]
            \o (IF i \in C17_Recipients(r, s) THEN <<ChatFrame(m)>> ELSE <<>>)
            \o (IF ack /\ i = s /\ wsState[s] = "open"
                THEN <<DeliveredFrame(m.id)>> ELSE <<>>)

\* this step stamps a message
C17_Stamps == Len(messageHistory') = Len(messageHistory) + 1

\* C17: a stamped chat message goes once to every other session with the
\* message's roomId and a writable transport, at once or when its timer runs
\* out, never to the session that sent it, and that session gets one
\* message_delivered frame with the message's id; no other step sends a copy.
C17_BroadcastRule ==
    [][/\ \A id \in Ids :
             handleChat(id) /\ C17_Stamps =>
                 LET m == messageHistory'[Len(messageHistory')]
                     r == clients[id].roomId
                 IN /\ m.userId = id
                    /\ IF m.delayed
                       THEN /\ C17_Timers(timers', m.id) = 1
                            /\ \A i \in Ids :
                                  toClient'[i] = toClient[i]
                                      \o (IF i = id /\ wsState[id] = "open"
                                          THEN <<DeliveredFrame(m.id)>> ELSE <<>>)
                       ELSE /\ C17_Timers(timers', m.id) = 0
                            /\ C17_Fanout(m, r, id, TRUE)
       /\ \A j \in 1..Len(timers) :
             TimerFire(j) /\ timers[j].kind = "chat" =>
                 /\ C17_Fanout(timers[j].msg, timers[j].roomId, timers[j].exclude, FALSE)
                 /\ timers[j].exclude = timers[j].msg.userId
                 /\ C17_Timers(timers', timers[j].msg.id) = 0
       /\ \A k \in 1..Len(messageHistory') :
             /\ C17_Timers(timers', k) > C17_Timers(timers, k)
                   => C17_Stamps /\ k = Len(messageHistory')
             /\ \A i \in Ids :
                   C17_Copies(toClient'[i], k) > C17_Copies(toClient[i], k)
                       => \/ C17_Stamps /\ k = Len(messageHistory')
                          \/ C17_Timers(timers', k) < C17_Timers(timers, k)]_vars

\* C17: a deferred message has reached the inbox of another session.
C17_DeferredSent ==
    \E i \in Ids : \E k \in 1..Len(messageHistory) :
        /\ messageHistory[k].delayed
        /\ messageHistory[k].userId # i
        /\ C17_Copies(toClient[i], k) > 0

\* C18: when the hub handles a chat frame with simulateDelay, that step adds
\* one to the sender's own entry, appends the message with that clock to the
\* history and puts message_delivered on the sender's inbox; it sends no chat
\* frame and leaves one timer, and the timer's step does the fan-out only.
C18_OnlyFanoutDeferred ==
    [][/\ \A id \in Ids :
             handleChat(id) /\ Head(toHub[id]).simulateDelay
                            /\ clients[id].roomId \in Rooms =>
                 LET m == messageHistory'[Len(messageHistory')]
                 IN /\ Get0(clients'[id].vectorClock, id)
                          = Get0(clients[id].vectorClock, id) + 1
                    /\ messageHistory' = Append(messageHistory, m)
                    /\ m.userId = id /\ m.delayed
                    /\ m.vectorClock = clients'[id].vectorClock
                    /\ wsState[id] = "open" =>
                          toClient'[id] = Append(toClient[id], DeliveredFrame(m.id))
                    /\ \A i \in Ids \ {id} : toClient'[i] = toClient[i]
                    /\ Len(timers') = Len(timers) + 1
                    /\ timers'[Len(timers')].kind = "chat"
                    /\ timers'[Len(timers')].msg = m
       /\ \A j \in 1..Len(timers) :
             TimerFire(j) /\ timers[j].kind = "chat" =>
                 /\ timers[j].msg \in Range(messageHistory)
                 /\ UNCHANGED <<clients, messageHistory>>
                 /\ \A i \in Ids : \A f \in Range(toClient'[i]) :
                       f.type = "message_delivered" => f \in Range(toClient[i])]_vars

\* C18: a message is stamped, stored and acknowledged while its broadcast is
\* still waiting.
C18_AckedBeforeFanout ==
    \E j \in 1..Len(timers) :
        /\ timers[j].kind = "chat"
        /\ timers[j].msg \in Range(messageHistory)
        /\ DeliveredFrame(timers[j].msg.id) \in Range(toClient[timers[j].exclude])
        /\ \A i \in Ids : C17_Copies(toClient[i], timers[j].msg.id) = 0

\* C19: the history the hub stores for the room never holds more than
\* HistoryWindow messages.
C19_HistoryBounded == Len(messageHistory) <= HistoryWindow

\* C19: one message more than the window has been stamped.
C19_WindowExceeded ==
    \E id \in DOMAIN clients : clients[id].stamped = HistoryWindow + 1

\* C20, the reply the requester is to get: of the n messages stamped for its
\* room the last min(HistoryWindow, n), in the order of stamping.
C20_Expected(id) ==
    LET n == IF clients[id].roomId \in Rooms THEN Len(messageHistory) ELSE 0
        c == IF n < HistoryWindow THEN n ELSE HistoryWindow
    IN [k \in 1..c |-> messageHistory[n - c + k]]

\* C20: the hub answers request_history with one history frame, on the
\* requester's inbox only, that holds the expected messages.
C20_HistoryReply ==
    [][\A id \in Ids :
          sendHistory(id) /\ wsState[id] = "open" =>
              /\ toClient'[id] = Append(toClient[id], HistoryFrame(C20_Expected(id)))
              /\ \A k \in 1..Len(C20_Expected(id)) :
                    C20_Expected(id)[k].id = Len(messageHistory) - Len(C20_Expected(id)) + k
              /\ \A i \in Ids \ {id} : toClient'[i] = toClient[i]
              /\ UNCHANGED hubVars]_vars

\* C20: a history frame of a history longer than the window is on an inbox.
C20_LongHistorySent ==
    /\ Len(messageHistory) > HistoryWindow
    /\ \E i \in Ids : \E f \in Range(toClient[i]) :
          f.type = "history" /\ Len(f.messages) = HistoryWindow

\* the session is answered: one more frame on its inbox, a notice
C21_Answered(id) ==
    /\ Len(toClient'[id]) = Len(toClient[id]) + 1
    /\ toClient'[id][Len(toClient'[id])].type \in {"system", "error"}

\* what the hub keeps for its sessions: name, room and clock
C21_Sessions(cl) ==
    [i \in DOMAIN cl |-> <<cl[i].username, cl[i].roomId, cl[i].vectorClock>>]

\* C21: a chat frame of a session that has not joined changes no clock and no
\* history, starts no broadcast, reaches no other session, and the session
\* gets an error notice.
C21_ChatBeforeJoinRejected ==
    [][\A id \in Ids :
          handleChat(id) /\ id \notin roomUsers =>
              /\ C21_Sessions(clients') = C21_Sessions(clients)
              /\ UNCHANGED <<messageHistory, timers>>
              /\ \A i \in Ids \ {id} : toClient'[i] = toClient[i]
              /\ C21_Answered(id)]_vars

\* C21: the history holds a message of a session that had no name yet.
C21_AnonymousStamped ==
    \E k \in 1..Len(messageHistory) : messageHistory[k].username = NoName

\* C22: a join frame for a room the hub does not have leaves the session's
\* name, room and clock and the member set as they were, and the session gets
\* an error notice.
C22_UnknownRoomRejected ==
    [][\A id \in Ids :
          /\ handleJoin(id)
          /\ Head(toHub[id]).roomId # NoRoom
          /\ Head(toHub[id]).roomId \notin Rooms
          => /\ C21_Sessions(clients') = C21_Sessions(clients)
             /\ UNCHANGED roomUsers
             /\ C21_Answered(id)]_vars

\* C22: a session carries the name of a room the hub does not have.
C22_InUnknownRoom ==
    \E id \in DOMAIN clients : clients[id].roomId \notin Rooms

\* C23: a frame that does not parse or whose type no case matches is dropped:
\* sessions, member set, history and timers stay as they were, nothing is
\* sent, and the session stays registered with its later frames still queued.
C23_ProtocolErrorDropped ==
    [][\A id \in Ids :
          handleUnknown(id) =>
              /\ C21_Sessions(clients') = C21_Sessions(clients)
              /\ UNCHANGED <<roomUsers, messageHistory, timers, nextId, wsState, toClient>>
              /\ id \in DOMAIN clients'
              /\ toHub' = [toHub EXCEPT ![id] = Tail(@)]]_vars

\* C23: a joined session has had a frame dropped and a chat frame stamped.
C23_DroppedAndServed ==
    \E id \in DOMAIN clients :
        clients[id].dropped > 0 /\ clients[id].stamped > 0 /\ id \in roomUsers

\* the sessions left with roomId r and a writable transport when id goes
C24_Remaining(id, r) ==
    {i \in DOMAIN clients : i # id /\ clients[i].roomId = r /\ wsState[i] = "open"}

\* the user_list timers waiting
C24_ListTimers(ts) == Cardinality({j \in 1..Len(ts) : ts[j].kind = "user_list"})

\* the steps of the disconnect protocol, the member set apart: the session
\* leaves the registry, the sessions left in its room get the system notice at
\* once and, from a later callback, a user_list without the session that
\* left; a closed session gets no frame
C24_Steps ==
    /\ \A id \in Ids :
          handleDisconnect(id) =>
              /\ id \notin DOMAIN clients'
              /\ \A i \in Ids :
                    toClient'[i] =
                        IF i \in C24_Remaining(id, clients[id].roomId)
                        THEN Append(toClient[i], SystemFrame(NoId))
                        ELSE toClient[i]
              /\ clients[id].roomId \in Rooms =>
                    /\ C24_ListTimers(timers') = C24_ListTimers(timers) + 1
                    /\ timers'[Len(timers')].roomId = clients[id].roomId
    /\ \A j \in 1..Len(timers) :
          TimerFire(j) /\ timers[j].kind = "user_list" =>
              \A i \in Ids :
                  toClient'[i] =
                      IF i \in C24_Remaining(NoId, timers[j].roomId)
                      THEN Append(toClient[i],
                                  UserListFrame({u \in DOMAIN clients :
                                                    /\ clients[u].roomId = timers[j].roomId
                                                    /\ clients[u].username # NoName}))
                      ELSE toClient[i]
    /\ \A i \in Ids : wsState'[i] = "closed" => toClient'[i] = <<>>

\* C24: when the hub handles the close of a session, the session leaves the
\* member set and the registry, the sessions left in its room get the system
\* notice and afterwards a user_list without it, and it gets no later frame.
C24_DisconnectProtocol ==
    [][/\ C24_Steps
       /\ \A id \in Ids : handleDisconnect(id) => id \notin roomUsers']_vars

\* the same, the member set only for a session whose roomId names a room of
\* the hub
C24_DisconnectInRoom ==
    [][/\ C24_Steps
       /\ \A id \in Ids :
             handleDisconnect(id) /\ clients[id].roomId \in Rooms
                 => id \notin roomUsers']_vars

\* C24: a session has left, another session holds the notice and the
\* user_list is still to come.
C24_LeftNoticed ==
    \E id \in Ids :
        /\ wsState[id] = "closed"
        /\ id \notin DOMAIN clients
        /\ C24_ListTimers(timers) > 0
        /\ \E i \in DOMAIN clients : SystemFrame(NoId) \in Range(toClient[i])

\* C25, the users of the room once id has joined it: the named sessions with
\* that roomId
C25_Users(r) ==
    {u \in DOMAIN clients' : clients'[u].roomId = r /\ clients'[u].username # NoName}

\* C25: a join frame with a name, for a room of the hub, puts the session in
\* the member set; every session of the room with a writable transport, the
\* joiner too, gets a user_list with the joiner in it and then the system
\* notice, and the joiner gets join_success after these two; nobody else gets
\* a frame.
C25_JoinOrder ==
    [][\A id \in Ids :
          /\ handleJoin(id)
          /\ Head(toHub[id]).username # NoName
          /\ clients'[id].roomId \in Rooms
          => LET r == clients'[id].roomId
             IN /\ roomUsers' = roomUsers \cup {id}
                /\ clients'[id].username = Head(toHub[id]).username
                /\ id \in C25_Users(r)
                /\ \A i \in Ids :
                      toClient'[i] = toClient[i]
                          \o (IF /\ i \in DOMAIN clients'
                                 /\ clients'[i].roomId = r
                                 /\ wsState[i] = "open"
                              THEN <<UserListFrame(C25_Users(r)), SystemFrame(id)>>
                              ELSE <<>>)
                          \o (IF i = id /\ wsState[id] = "open"
                              THEN <<JoinSuccessFrame(C25_Users(r))>> ELSE <<>>)]_vars

\* C25: a joiner holds user_list, the notice of its own join and join_success,
\* in this order, and another session holds the notice too.
C25_JoinerServed ==
    \E id \in roomUsers :
        /\ Len(toClient[id]) >= 3
        /\ LET n == Len(toClient[id])
           IN /\ toClient[id][n - 2].type = "user_list"
              /\ id \in toClient[id][n - 2].users
              /\ toClient[id][n - 1] = SystemFrame(id)
              /\ toClient[id][n].type = "join_success"
        /\ \E i \in DOMAIN clients \ {id} : SystemFrame(id) \in Range(toClient[i])

C27_HandledWithoutError ==
    [][\A p \in Apps :
          LET data == Head(toClient[app[p].ws]).msg
          IN /\ onChat(p)
             /\ app[p].hasClock
             /\ data.userId # NoId
             /\ data.username # NoName
             => \/ ShownAt(app'[p].messages, data.id) > 0
                \/ data.id \in BufferIds(app'[p].causalEngine.messageBuffer)]_vars

\* C27: a page with its clock has taken a chat frame with userId and username.
C27_WellFormedTaken ==
    \E p \in Apps : \E k \in Handed(app[p]) \ app[p].replayed :
        /\ app[p].hasClock
        /\ k \in 1..Len(messageHistory)
        /\ messageHistory[k].username # NoName
        /\ messageHistory[k].userId # app[p].userId

\* C28, the record the engine was offered last, its sender's entry in the
\* record's clock and in the clock the engine was handed
C28_Offered == CHOOSE m \in HPool : m.id = hLast.id

C28_Entry == Get0(C28_Offered.vectorClock, C28_Offered.userId)

C28_Local == Get0(hClock, C28_Offered.userId)

C28_Untouched ==
    /\ hEngine.messageBuffer = hLast.before.messageBuffer
    /\ hEngine.deliveredMessages = hLast.before.deliveredMessages

\* C28: a record whose sender entry is below local[sender] + 1 is dropped as a
\* duplicate, neither buffered nor delivered; one whose sender entry is above
\* local[sender] + 1 is buffered.
C28_AnomaliesSorted ==
    hLast.op = "processMessage"
    => /\ C28_Entry < C28_Local + 1
          => hLast.action \notin {"buffered", "deliver_immediately"} /\ C28_Untouched
       /\ C28_Entry > C28_Local + 1
          => /\ hLast.action = "buffered"
             /\ hLast.id \in BufferIds(hEngine.messageBuffer)

\* C28, the second half alone: a record ahead of local[sender] + 1 is buffered.
C28_AheadBuffered ==
    hLast.op = "processMessage" /\ C28_Entry > C28_Local + 1
    => /\ hLast.action = "buffered"
       /\ hLast.id \in BufferIds(hEngine.messageBuffer)

\* C28: the engine was offered, for the first time, a record whose sender
\* entry is below local[sender] + 1.
C28_BehindOffered ==
    /\ hLast.op = "processMessage"
    /\ C28_Entry < C28_Local + 1
    /\ hLast.id \notin BufferIds(hLast.before.messageBuffer)
    /\ hLast.id \notin Range(hLast.before.deliveredMessages)

\* C28: the engine was offered a record whose sender entry is above
\* local[sender] + 1.
C28_AheadOffered == hLast.op = "processMessage" /\ C28_Entry > C28_Local + 1

\* C29: the hub takes the frame at the head of a session's queue, of this type
C29_Takes(id, type) ==
    /\ Pending(id, type)
    /\ toHub' = [toHub EXCEPT ![id] = Tail(@)]

\* the hub-side clocks of the sessions
C29_Clocks(cl) == [i \in DOMAIN cl |-> cl[i].vectorClock]

\* C29: when the hub handles a typing, request_history, get_users or ping
\* frame, every session's hub-side clock and the history stay as they were;
\* and a session's own entry in its hub-side clock rises only in a step that
\* handles a chat frame of that session.
C29_OnlyChatAdvances ==
    [][/\ \A id \in Ids :
             (\E t \in {"typing", "request_history", "get_users", "ping"} :
                 C29_Takes(id, t))
             => /\ C29_Clocks(clients') = C29_Clocks(clients)
                /\ messageHistory' = messageHistory
       /\ \A id \in DOMAIN clients \cap DOMAIN clients' :
             Get0(clients'[id].vectorClock, id) > Get0(clients[id].vectorClock, id)
             => C29_Takes(id, "chat")]_vars

\* C29, read for every entry: no entry of a session's hub-side clock rises
\* but in a step that handles a chat frame of that session.
C29_NoEntryRisesElsewhere ==
    [][\A id \in DOMAIN clients \cap DOMAIN clients' : \A k \in Ids :
          Get0(clients'[id].vectorClock, k) > Get0(clients[id].vectorClock, k)
          => C29_Takes(id, "chat")]_vars

\* C29: a session whose hub-side clock has ticked had its ping answered: the
\* pong is on its inbox and the history holds its message.
C29_PingAfterChat ==
    \E id \in DOMAIN clients :
        /\ Get0(clients[id].vectorClock, id) > 0
        /\ messageHistory # <<>>
        /\ \E f \in Range(toClient[id]) : f.type = "pong"

\* C29: the same for a typing frame, shown to another session
C29_TypingAfterChat ==
    \E id \in DOMAIN clients :
        /\ Get0(clients[id].vectorClock, id) > 0
        /\ \E q \in Ids \ {id} : \E f \in Range(toClient[q]) :
              f.type = "user_typing" /\ f.clientId = id

\* C29: the same for a request_history frame
C29_HistoryAfterChat ==
    \E id \in DOMAIN clients :
        /\ Get0(clients[id].vectorClock, id) > 0
        /\ \E f \in Range(toClient[id]) : f.type = "history" /\ f.messages # <<>>

\* C30, the chat messages waiting for their deferred broadcast
C30_Waiting(ts) == {ts[j].msg : j \in {j \in 1..Len(ts) : ts[j].kind = "chat"}}

\* C30: the clock of a message is the sender's hub-side clock right after the
\* increment for that send, and no later step changes it: a stored message
\* stays as it was stamped, a message waiting for its deferred broadcast and
\* a chat frame put on an inbox carry what the history holds.
C30_SentClockIsCopy ==
    [][/\ \A id \in Ids :
             handleChat(id) /\ Len(messageHistory') = Len(messageHistory) + 1
             => LET m == messageHistory'[Len(messageHistory')]
                IN /\ m.userId = id
                   /\ m.vectorClock = clients'[id].vectorClock
                   /\ m.vectorClock[id] = Get0(clients[id].vectorClock, id) + 1
                   /\ \A k \in DOMAIN clients[id].vectorClock \ {id} :
                         m.vectorClock[k] = clients[id].vectorClock[k]
       /\ Len(messageHistory') >= Len(messageHistory)
       /\ \A k \in 1..Len(messageHistory) : messageHistory'[k] = messageHistory[k]
       /\ \A m \in C30_Waiting(timers') : m = messageHistory'[m.id]
       /\ \A q \in Ids : \A f \in Range(toClient'[q]) :
             f.type = "chat" => f.msg = messageHistory'[f.msg.id]]_vars

\* C30: a message waits for its deferred broadcast, in the history too, and
\* its sender's hub-side clock has been incremented again since.
C30_IncrementedWhileWaiting ==
    \E m \in C30_Waiting(timers) :
        /\ m.userId \in DOMAIN clients
        /\ messageHistory[m.id] = m
        /\ Get0(clients[m.userId].vectorClock, m.userId) > m.vectorClock[m.userId]

\* C31: the page's clock keeps every counter it had, and a key it gains
\* starts at 0
C31_CountersKept(before, after) ==
    /\ \A k \in DOMAIN before : k \in DOMAIN after /\ after[k] = before[k]
    /\ \A k \in DOMAIN after \ DOMAIN before : after[k] = 0

\* C31: the page's engine and its buffer list stay as they were
C31_EngineKept(before, after) ==
    /\ after.causalEngine = before.causalEngine
    /\ after.bufferedMessages = before.bufferedMessages
    /\ after.messages = before.messages

\* C31: handling a user_list or a system frame adds nothing to the causal
\* buffer and changes no counter the clock has; a user_list frame may add
\* absent users with 0, a system frame leaves the clock alone and its notice
\* is shown, whatever the buffer holds.
C31_NoticesBypassEngine ==
    [][/\ hLast'.op = "handleUserList"
          => /\ C31_EngineKept(app[Page], app'[Page])
             /\ C31_CountersKept(app[Page].vectorClock, app'[Page].vectorClock)
       /\ hLast'.op = "handleSystemMessage"
          => /\ C31_EngineKept(app[Page], app'[Page])
             /\ app'[Page].vectorClock = app[Page].vectorClock
             /\ app'[Page].notices = app[Page].notices + 1]_vars

\* C31, the same for the frames the hub sends to the running pages
C31_NoticesBypassEngineLive ==
    [][\A p \in Apps :
          /\ onUserList(p)
             => /\ C31_EngineKept(app[p], app'[p])
                /\ C31_CountersKept(app[p].vectorClock, app'[p].vectorClock)
          /\ onNotice(p) /\ Head(toClient[app[p].ws]).type = "system"
             => /\ C31_EngineKept(app[p], app'[p])
                /\ app'[p].vectorClock = app[p].vectorClock
                /\ app'[p].notices = app[p].notices + 1]_vars

\* C31: a page whose clock has ticked and that holds a buffered message has
\* shown a notice and has taken a user list that brought a new user.
C31_NoticeWhileBuffered ==
    /\ app[Page].causalEngine.messageBuffer # <<>>
    /\ app[Page].bufferedMessages # <<>>
    /\ app[Page].vectorClock[HSelf] > 0
    /\ app[Page].notices > 0
    /\ hLast.op = "handleUserList"
    /\ DOMAIN app[Page].vectorClock # {HSelf}

\* C31: a running page whose clock has ticked has shown a notice.
C31_NoticeLive ==
    \E p \in Apps :
        /\ app[p].notices > 0
        /\ app[p].hasClock
        /\ app[p].userId \in DOMAIN app[p].vectorClock
        /\ app[p].vectorClock[app[p].userId] > 0

\* C32, the entry of a buffer under an id
C32_Entry(buffer, id) == buffer[BufferIndex(buffer, id)]

\* C32, the pass finds this entry ready against the clock it is handed
C32_Ready(e) == canDeliverBufferedMessage(hClock, e.message.vectorClock, e.message.userId)

\* C32: an entry starts with 0 attempts when processMessage buffers it; a pass
\* of checkBufferedMessages adds one attempt to every entry it finds not ready
\* and none to an entry it finds ready; no other call changes the attempts of
\* an entry that stays buffered.
C32_AttemptsCountFailedPasses ==
    [][LET before == hEngine.messageBuffer
           after == hEngine'.messageBuffer
       IN /\ hLast'.op = "processMessage" /\ hLast'.action = "buffered"
             => /\ hLast'.id \in BufferIds(after)
                /\ C32_Entry(after, hLast'.id).attempts = 0
                /\ \A id \in BufferIds(before) \ {hLast'.id} :
                      /\ id \in BufferIds(after)
                      /\ C32_Entry(after, id).attempts = C32_Entry(before, id).attempts
          /\ hLast'.op = "checkBufferedMessages"
             => /\ BufferIds(after) = BufferIds(before)
                /\ \A id \in BufferIds(before) :
                      C32_Entry(after, id).attempts =
                         C32_Entry(before, id).attempts
                            + (IF C32_Ready(C32_Entry(before, id)) THEN 0 ELSE 1)
          /\ hLast'.op \notin {"processMessage", "checkBufferedMessages"}
             => \A id \in BufferIds(before) \cap BufferIds(after) :
                   C32_Entry(after, id).attempts = C32_Entry(before, id).attempts]_vars

\* C32: a pass found one entry ready and another not ready for the second time.
C32_PassWithBoth ==
    /\ hLast.op = "checkBufferedMessages"
    /\ hLast.readyMessages # <<>>
    /\ \E i \in 1..Len(hEngine.messageBuffer) :
          /\ hEngine.messageBuffer[i].attempts = 2
          /\ hEngine.messageBuffer[i].id \notin Range(hLast.readyMessages)
    /\ \E i \in 1..Len(hEngine.messageBuffer) :
          /\ hEngine.messageBuffer[i].id \in Range(hLast.readyMessages)
          /\ hEngine.messageBuffer[i].attempts = 1

\* C33, the ids the last drain pass found ready, in the order the pass gives
C33_Ready ==
    checkBufferedMessages(hLast.before.causalEngine,
                          hLast.before.vectorClock).readyMessages

\* C33, the messages the last drain pass displayed, in display order
C33_Displayed ==
    SubSeq(app[Page].messages, Len(hLast.before.messages) + 1, Len(app[Page].messages))

\* C33, the place an id had in the buffer before the pass: the order in which
\* the buffered messages were received
C33_ReceivedAt(id) == BufferIndex(hLast.before.causalEngine.messageBuffer, id)

C33_AllReadyDisplayed ==
    hLast.op = "deliverBufferedMessages" /\ Len(C33_Ready) >= 2
    => Len(C33_Displayed) = Len(C33_Ready)

\* C33, the order alone: of the messages a pass displays, none comes before
\* one that happens-before it.
C33_DisplayedCausally ==
    hLast.op = "deliverBufferedMessages"
    => \A i, j \in 1..Len(C33_Displayed) :
          i < j => ~HappensBefore(C33_Displayed[j].vectorClock, C33_Displayed[i].vectorClock)

C34_MembersAreSessions ==
    \A id \in roomUsers : id \in DOMAIN clients /\ clients[id].roomId \in Rooms

\* C34: a member of the room has named a room the hub does not have.
C34_MemberElsewhere ==
    \E id \in roomUsers : id \in DOMAIN clients /\ clients[id].roomId \notin Rooms

\* C34: the member set holds the id of a session the hub has closed.
C34_MemberGone == \E id \in roomUsers : id \notin DOMAIN clients

\* C35: the frames a step puts on the inbox of session i
C35_Put(i) ==
    {toClient'[i][k] : k \in (Len(toClient[i]) + 1)..Len(toClient'[i])}

\* C35: a chat or user_typing frame is put on the inbox of a member of the
\* room only; a session that has not joined gets none.
C35_OnlyMembersReached ==
    [][\A i \in Ids : \A f \in C35_Put(i) :
          f.type \in {"chat", "user_typing"} => i \in roomUsers]_vars

\* C35: a session that has sent no join frame yet holds a chat frame.
C35_UnjoinedHoldsChat ==
    \E i \in DOMAIN clients :
        /\ i \notin roomUsers
        /\ clients[i].username = NoName
        /\ \E f \in Range(toClient[i]) : f.type = "chat"

\* C35: the same for a user_typing frame
C35_UnjoinedHoldsTyping ==
    \E i \in DOMAIN clients :
        /\ i \notin roomUsers
        /\ clients[i].username = NoName
        /\ \E f \in Range(toClient[i]) : f.type = "user_typing"

\* C36: a chat frame goes to sessions that were in the room when the hub
\* stamped the message, and to no other, also when a timer sends it: no
\* session that came between the stamping and the timer gets the frame.
C36_OnlyPresentReached ==
    [][\A j \in 1..Len(timers) :
          TimerFire(j) /\ timers[j].kind = "chat" =>
              \A q \in Ids : \A f \in C35_Put(q) :
                  f.type = "chat" => q \in timers[j].present]_vars

\* C36: a session that joined after a message was stamped holds the deferred
\* chat frame of that message: the message's clock does not know the session,
\* and the clock the session got on joining has the sender's entry at or past
\* the message's.
C36_LateJoinerReached ==
    \E q \in roomUsers : \E f \in Range(toClient[q]) :
        /\ f.type = "chat"
        /\ f.msg.delayed
        /\ q \in DOMAIN clients
        /\ q \notin DOMAIN f.msg.vectorClock
        /\ Get0(clients[q].vectorClock, f.msg.userId) >= f.msg.vectorClock[f.msg.userId]

\* C37, the local echoes a page shows for its session, in the order it sent them
C37_Echoes(p) ==
    SelectSeq(app[p].messages, LAMBDA m : m.id < 0 /\ m.userId = app[p].userId)

\* C37, the messages the hub stamped for a session, in stamping order
C37_Stamped(u) == SelectSeq(messageHistory, LAMBDA m : m.userId = u)

\* C37, the hub has handled every chat frame the page sent, and stamped as many
\* messages for the session as the page shows echoes: the j-th echo and the
\* j-th stamped message are the same send
C37_Paired(p) ==
    /\ app[p].userId # NoId
    /\ \A k \in 1..Len(toHub[app[p].userId]) : toHub[app[p].userId][k].type # "chat"
    /\ Len(C37_Echoes(p)) = Len(C37_Stamped(app[p].userId))

\* C37, two clocks with the same counters, a user the clock does not have
\* counting as 0
C37_SameClock(a, b) == \A k \in DOMAIN a \cup DOMAIN b : Get0(a, k) = Get0(b, k)

\* C37: the clock of the message the hub stamps and broadcasts is the clock
\* the page put on the chat frame and on its local echo.
C37_EchoClockIsSentClock ==
    \A p \in Apps :
        C37_Paired(p) =>
            \A j \in 1..Len(C37_Echoes(p)) :
                C37_SameClock(C37_Echoes(p)[j].vectorClock,
                              C37_Stamped(app[p].userId)[j].vectorClock)

\* C37: a page's echo is paired with the stamped message, and the history
\* holds an earlier message of another session.
C37_EchoAfterPeer ==
    \E p \in Apps :
        /\ C37_Paired(p)
        /\ C37_Echoes(p) # <<>>
        /\ \E k \in 1..Len(messageHistory) :
              /\ messageHistory[k].userId # app[p].userId
              /\ k < C37_Stamped(app[p].userId)[1].id

\* C38, how many times a list of displayed messages shows an id
C38_Shown(list, id) == Cardinality({i \in 1..Len(list) : list[i].id = id})

\* C38, the first part for one engine: no id is buffered and delivered at once
C38_Disjoint(engine) ==
    BufferIds(engine.messageBuffer) \cap Range(engine.deliveredMessages) = {}

C38_BufferedOrDelivered == C38_Disjoint(app[Page].causalEngine)

\* C38, the first part alone, on the engine called from outside the page
C38_EngineBufferedOrDelivered == C38_Disjoint(hEngine)

\* C38, on the running pages: no page shows a message id of the hub twice.
C38_AtMostOnceLive ==
    \A p \in Apps : \A k \in 1..Len(messageHistory) :
        C38_Shown(app[p].messages, k) <= 1

C39_SameIds ==
    {app[Page].bufferedMessages[i].id : i \in 1..Len(app[Page].bufferedMessages)}
        = BufferIds(app[Page].causalEngine.messageBuffer)

\* C39, on the running pages, where clearChat is among the steps
C39_ListMirrorsBufferLive ==
    \A p \in Apps : \A k \in 1..Len(messageHistory) :
        C38_Shown(app[p].bufferedMessages, k) =
            (IF k \in BufferIds(app[p].causalEngine.messageBuffer) THEN 1 ELSE 0)

C40_Released(engine) ==
    getStats(engine).totalDelivered - getStats(engine).deliveredImmediately

\* C40, the relations between the counters of one engine
C40_Consistent(engine) ==
    LET st == getStats(engine)
    IN /\ st.totalProcessed = st.deliveredImmediately + st.buffered
       /\ st.maxBufferSize >= st.currentBufferSize
       /\ st.currentBufferSize <= st.buffered
       /\ st.totalDelivered >= st.deliveredImmediately

\* C40: after every call the counters of the engine agree with each other; the
\* deliveries beyond the immediate ones grow by one with each deliverMessage
\* that finds its id and with no other call; reset leaves every counter at 0
\* and the buffer and the delivered list empty.
C40_CountersConsistent ==
    [][/\ C40_Consistent(hEngine')
       /\ hLast'.op = "deliverMessage" /\ hLast'.delivered
             => C40_Released(hEngine') = C40_Released(hEngine) + 1
       /\ (\/ hLast'.op \in {"processMessage", "checkBufferedMessages"}
           \/ hLast'.op = "deliverMessage" /\ ~hLast'.delivered)
             => C40_Released(hEngine') = C40_Released(hEngine)
       /\ hLast'.op = "reset"
             => /\ getStats(hEngine') =
                      [totalProcessed |-> 0, deliveredImmediately |-> 0, buffered |-> 0,
                       maxBufferSize |-> 0, currentBufferSize |-> 0, totalDelivered |-> 0]
                /\ hEngine'.messageBuffer = <<>>
                /\ hEngine'.deliveredMessages = <<>>]_vars

\* C40: deliverMessage has just released a buffered message of an engine that
\* had delivered another at once and still holds one.
C40_MixedCalls ==
    /\ hLast.op = "deliverMessage"
    /\ hLast.delivered
    /\ getStats(hEngine).deliveredImmediately > 0
    /\ getStats(hEngine).currentBufferSize > 0
    /\ getStats(hEngine).maxBufferSize > getStats(hEngine).currentBufferSize

\* C40: an engine that had delivered and buffered has been reset.
C40_ResetAfterUse == hLast.op = "reset" /\ hEngine = NewEngine

====
